---- MODULE Spec2Model ----
(***************************************************************************)
(* Dispatch tools of the MCP server (src/src/mcp-server/tools/dispatches.ts)*)
(* over the relational store: dispatches, dispatch-task links and tasks.    *)
(* Calendar days are triples <<year, month, day>> standing for the string   *)
(* "YYYY-MM-DD"; Date values are whole day numbers since 1970-01-01 UTC.    *)
(***************************************************************************)
EXTENDS Integers, Sequences, FiniteSets, TLC

VARIABLES dispatches, dispatchTasks, tasks, now, procs, calc, users, http, render

vars == <<dispatches, dispatchTasks, tasks, now, procs, calc, users, http, render>>

\* ------------------------------------------------------------------ bounds
MaxDispatches == 2
MaxTasks == 2
MaxTicks == 1
MaxChain == 50

Users == {"u1", "u2"}
\* every user creates tasks and opens today's dispatch; the remaining tools
\* are driven by the callers in Actors (against rows of every user)
Actors == {"u1"}
CreateStatuses == {"open", "in_progress"}
Summaries == {"s1"}
Procs == {"p1", "p2"}
StartDates == {<<2023, 12, 30>>}

NULL == 0
NoSummary == "null"

DispatchIds == 1..MaxDispatches
TaskIds == 1..MaxTasks

TASK_STATUS == {"open", "in_progress", "done"}

\* ------------------------------------------------- calendar (Date object)
DaysInYear(y) ==
    IF y % 4 # 0 THEN 365
    ELSE IF y % 100 # 0 THEN 366
    ELSE IF y % 400 # 0 THEN 365
    ELSE 366

DayFromYear(y) ==
    365 * (y - 1970) + ((y - 1969) \div 4) - ((y - 1901) \div 100) + ((y - 1601) \div 400)

YearFromTime(day) ==
    LET a == 1970 + (day \div 366)
        b == 1970 + (day \div 365)
    IN CHOOSE y \in ((IF a < b THEN a ELSE b) - 1)..((IF a < b THEN b ELSE a) + 1) :
           DayFromYear(y) <= day /\ day < DayFromYear(y + 1)

LeapFlag(y) == IF DaysInYear(y) = 366 THEN 1 ELSE 0

\* first day-within-year of month index mn (0-based) in a year with leap flag lp
MonthStart(mn, lp) ==
    CASE mn = 0 -> 0
      [] mn = 1 -> 31
      [] mn = 2 -> 59 + lp
      [] mn = 3 -> 90 + lp
      [] mn = 4 -> 120 + lp
      [] mn = 5 -> 151 + lp
      [] mn = 6 -> 181 + lp
      [] mn = 7 -> 212 + lp
      [] mn = 8 -> 243 + lp
      [] mn = 9 -> 273 + lp
      [] mn = 10 -> 304 + lp
      [] mn = 11 -> 334 + lp
      [] OTHER -> 365 + lp

\* <<YearFromTime, MonthFromTime, DateFromTime>> of a day number
CivilFromTime(day) ==
    LET y == YearFromTime(day)
        lp == LeapFlag(y)
        dwy == day - DayFromYear(y)
        mn == CHOOSE m \in 0..11 : MonthStart(m, lp) <= dwy /\ dwy < MonthStart(m + 1, lp)
    IN <<y, mn, dwy - MonthStart(mn, lp) + 1>>

MakeDay(year, month, date) ==
    LET ym == year + (month \div 12)
        mn == month % 12
    IN DayFromYear(ym) + MonthStart(mn, LeapFlag(ym)) + date - 1

DateUTC(year, monthIndex, day) ==
    MakeDay(IF 0 <= year /\ year <= 99 THEN 1900 + year ELSE year, monthIndex, day)

\* next.setUTCDate(next.getUTCDate() + days)
setUTCDate(t, days) ==
    LET c == CivilFromTime(t) IN MakeDay(c[1], c[2], c[3] + days)

\* toISOString().slice(0, 10)
toISOString(t) ==
    LET c == CivilFromTime(t) IN <<c[1], c[2] + 1, c[3]>>

addDaysToIsoDate(date, days) ==
    LET year == date[1]
        month == date[2]
        day == date[3]
    IN IF month < 1 \/ month > 12 \/ day < 1 \/ day > 31
       THEN date
       ELSE toISOString(setUTCDate(DateUTC(year, month - 1, day), days))

\* the formatter's year, month and day parts of the instant's local day
getIsoDateForTimeZone(instantDay) ==
    LET c == CivilFromTime(instantDay) IN <<c[1], c[2] + 1, c[3]>>

todayISODate == getIsoDateForTimeZone(now)

\* variant: the day number bumped in place, no carry into the next month
nextDateNoCarry(date) == <<date[1], date[2], date[3] + 1>>

nextDate(date) == addDaysToIsoDate(date, 1)

StartDays == {DateUTC(d[1], d[2] - 1, d[3]) : d \in StartDates}

\* ------------------------------------------------------- storage layer
Min(S) == CHOOSE x \in S : \A y \in S : x <= y

RECURSIVE SumCounts(_, _)
SumCounts(f, S) ==
    IF S = {} THEN 0
    ELSE LET x == Min(S) IN f[x] + SumCounts(f, S \ {x})

\* unique index on dispatch (userId, date)
DispatchKeyFree(ds, userId, date) ==
    \A i \in 1..Len(ds) : ~(ds[i].userId = userId /\ ds[i].date = date)

\* composite primary key on dispatch_task (dispatchId, taskId)
LinkKeyFree(dt, dispatchId, taskId) == <<dispatchId, taskId>> \notin DOMAIN dt

\* variant: the lookup never finds the row
SelectDispatchNever(ds, userId, date) == NULL

SelectDispatchByUserDate(ds, userId, date) ==
    LET hits == {i \in 1..Len(ds) : ds[i].userId = userId /\ ds[i].date = date}
    IN IF hits = {} THEN NULL ELSE Min(hits)

SelectDispatchByIdUser(ds, dispatchId, userId) ==
    IF dispatchId \in 1..Len(ds) /\ ds[dispatchId].userId = userId
    THEN dispatchId ELSE NULL

InsertDispatch(ds, userId, date) ==
    Append(ds, [userId |-> userId, date |-> date, summary |-> NoSummary, finalized |-> FALSE])

SelectActiveTask(tk, taskId, userId) ==
    IF taskId \in 1..Len(tk) /\ tk[taskId].userId = userId /\ ~tk[taskId].deleted
    THEN taskId ELSE NULL

\* dispatchTasks is the bag of link rows: row |-> number of copies (absent = 0)
CountLinks(dt, dispatchId, taskId) ==
    IF <<dispatchId, taskId>> \in DOMAIN dt THEN dt[<<dispatchId, taskId>>] ELSE 0

\* variant: the existing-link lookup is skipped
LinkExistsNever(dt, dispatchId, taskId) == FALSE

LinkExists(dt, dispatchId, taskId) == CountLinks(dt, dispatchId, taskId) > 0

InsertLink(dt, dispatchId, taskId) ==
    IF <<dispatchId, taskId>> \in DOMAIN dt
    THEN [dt EXCEPT ![<<dispatchId, taskId>>] = @ + 1]
    ELSE dt @@ (<<dispatchId, taskId>> :> 1)

DeleteLink(dt, dispatchId, taskId) ==
    [row \in DOMAIN dt \ {<<dispatchId, taskId>>} |-> dt[row]]

\* variant: the update carries no where clause and sets the flag on every row
SetFinalizedAll(ds, dispatchId) == [i \in 1..Len(ds) |-> [ds[i] EXCEPT !.finalized = TRUE]]

SetFinalized(ds, dispatchId) == [ds EXCEPT ![dispatchId].finalized = TRUE]

SetSummary(ds, dispatchId, summary) == [ds EXCEPT ![dispatchId].summary = summary]

\* join of dispatch_task and task rows of one dispatch, tasks not soft-deleted
LinkedTaskIds(dt, tk, dispatchId) ==
    {t \in 1..Len(tk) : CountLinks(dt, dispatchId, t) > 0 /\ ~tk[t].deleted}

\* variant: only tasks in status open count as unfinished
UnfinishedTaskIdsOpenOnly(dt, tk, dispatchId) ==
    {t \in LinkedTaskIds(dt, tk, dispatchId) : tk[t].status = "open"}

UnfinishedTaskIds(dt, tk, dispatchId) ==
    {t \in LinkedTaskIds(dt, tk, dispatchId) : tk[t].status # "done"}

\* the guards of the tools on a loaded dispatch row
SummaryLocked(ds, dispatch) == ds[dispatch].finalized

LinkLocked(ds, dispatch) == ds[dispatch].finalized

\* variant: unlink does not look at the finalized flag
UnlinkLockedNever(ds, dispatch) == FALSE

UnlinkLocked(ds, dispatch) == ds[dispatch].finalized

\* variant: complete-dispatch does not look at the finalized flag
AlreadyFinalizedNever(ds, dispatch) == FALSE

AlreadyFinalized(ds, dispatch) == ds[dispatch].finalized

\* variant: the next day's dispatch is fetched unconditionally
ShouldRollOverAlways(unfinishedTaskIds) == TRUE

\* unfinishedTaskIds.length > 0
ShouldRollOver(unfinishedTaskIds) == Cardinality(unfinishedTaskIds) > 0

\* ------------------------------------------------------------- results
Ok(out, rolledOver, nextDispatchId) ==
    [ok |-> TRUE, err |-> "", out |-> out, rolledOver |-> rolledOver,
     nextDispatchId |-> nextDispatchId]

Fail(msg) ==
    [ok |-> FALSE, err |-> msg, out |-> NULL, rolledOver |-> 0, nextDispatchId |-> NULL]

\* ------------------------------------------------------------ handlers
\* variant: an upsert that rewrites the row it finds as a fresh one
getOrCreateDispatchUpsert(ds, userId, date) ==
    LET existing == SelectDispatchByUserDate(ds, userId, date)
    IN IF existing # NULL
       THEN [ds |-> [ds EXCEPT ![existing].finalized = FALSE], id |-> existing,
             threw |-> FALSE]
       ELSE [ds |-> InsertDispatch(ds, userId, date), id |-> Len(ds) + 1, threw |-> FALSE]

getOrCreateDispatch(ds, userId, date) ==
    LET existing == SelectDispatchByUserDate(ds, userId, date)
    IN IF existing # NULL THEN [ds |-> ds, id |-> existing, threw |-> FALSE]
       ELSE IF ~DispatchKeyFree(ds, userId, date)
            THEN [ds |-> ds, id |-> NULL, threw |-> TRUE]
            ELSE [ds |-> InsertDispatch(ds, userId, date), id |-> Len(ds) + 1, threw |-> FALSE]

GetTodayDispatch(ds, dt, userId) ==
    LET goc == getOrCreateDispatch(ds, userId, todayISODate)
    IN IF goc.threw
       THEN [ds |-> goc.ds, dt |-> dt, res |-> Fail("UNIQUE constraint failed")]
       ELSE [ds |-> goc.ds, dt |-> dt, res |-> Ok(goc.id, 0, NULL)]

UpdateDispatchSummary(ds, dt, userId, summary, dispatchId) ==
    LET goc == IF dispatchId # NULL
               THEN [ds |-> ds, id |-> SelectDispatchByIdUser(ds, dispatchId, userId),
                     threw |-> FALSE]
               ELSE getOrCreateDispatch(ds, userId, todayISODate)
    IN IF goc.threw
       THEN [ds |-> goc.ds, dt |-> dt, res |-> Fail("UNIQUE constraint failed")]
       ELSE IF goc.id = NULL
       THEN [ds |-> goc.ds, dt |-> dt, res |-> Fail("Dispatch not found.")]
       ELSE IF SummaryLocked(goc.ds, goc.id)
       THEN [ds |-> goc.ds, dt |-> dt,
             res |-> Fail("Cannot update summary on a finalized dispatch.")]
       ELSE [ds |-> SetSummary(goc.ds, goc.id, summary), dt |-> dt,
             res |-> Ok(goc.id, 0, NULL)]

LinkTaskToDispatch(ds, dt, tk, userId, dispatchId, taskId) ==
    LET dispatch == SelectDispatchByIdUser(ds, dispatchId, userId)
        task == SelectActiveTask(tk, taskId, userId)
    IN IF dispatch = NULL
       THEN [ds |-> ds, dt |-> dt, res |-> Fail("Dispatch not found.")]
       ELSE IF LinkLocked(ds, dispatch)
       THEN [ds |-> ds, dt |-> dt, res |-> Fail("Cannot modify a finalized dispatch.")]
       ELSE IF task = NULL
       THEN [ds |-> ds, dt |-> dt, res |-> Fail("Task not found.")]
       ELSE IF LinkExists(dt, dispatch, task)
       THEN [ds |-> ds, dt |-> dt, res |-> Ok(dispatch, 0, NULL)]
       ELSE IF ~LinkKeyFree(dt, dispatch, task)
       THEN [ds |-> ds, dt |-> dt, res |-> Fail("UNIQUE constraint failed")]
       ELSE [ds |-> ds, dt |-> InsertLink(dt, dispatch, task), res |-> Ok(dispatch, 0, NULL)]

UnlinkTaskFromDispatch(ds, dt, userId, dispatchId, taskId) ==
    LET dispatch == SelectDispatchByIdUser(ds, dispatchId, userId)
    IN IF dispatch = NULL
       THEN [ds |-> ds, dt |-> dt, res |-> Fail("Dispatch not found.")]
       ELSE IF UnlinkLocked(ds, dispatch)
       THEN [ds |-> ds, dt |-> dt, res |-> Fail("Cannot modify a finalized dispatch.")]
       ELSE [ds |-> ds, dt |-> DeleteLink(dt, dispatch, taskId), res |-> Ok(dispatch, 0, NULL)]

\* the for-loop over unfinishedTaskIds: select the link, insert when absent
RECURSIVE RolloverLoop(_, _, _)
RolloverLoop(dt, next, todo) ==
    IF todo = {} THEN [dt |-> dt, threw |-> FALSE]
    ELSE LET taskId == Min(todo)
         IN IF LinkExists(dt, next, taskId)
            THEN RolloverLoop(dt, next, todo \ {taskId})
            ELSE IF ~LinkKeyFree(dt, next, taskId)
            THEN [dt |-> dt, threw |-> TRUE]
            ELSE RolloverLoop(InsertLink(dt, next, taskId), next, todo \ {taskId})

CompleteDispatch(ds, dt, tk, userId, dispatchId) ==
    LET dispatch == SelectDispatchByIdUser(ds, dispatchId, userId)
    IN IF dispatch = NULL
       THEN [ds |-> ds, dt |-> dt, res |-> Fail("Dispatch not found.")]
       ELSE IF AlreadyFinalized(ds, dispatch)
       THEN [ds |-> ds, dt |-> dt, res |-> Fail("Dispatch is already finalized.")]
       ELSE
         LET unfinishedTaskIds == UnfinishedTaskIds(dt, tk, dispatch)
             rolledOver == SumCounts([t \in unfinishedTaskIds |-> CountLinks(dt, dispatch, t)],
                                      unfinishedTaskIds)
             finalized == SetFinalized(ds, dispatch)
         IN IF ~ShouldRollOver(unfinishedTaskIds)
            THEN [ds |-> finalized, dt |-> dt, res |-> Ok(dispatch, rolledOver, NULL)]
            ELSE
              LET goc == getOrCreateDispatch(finalized, userId, nextDate(ds[dispatch].date))
              IN IF goc.threw
                 THEN [ds |-> goc.ds, dt |-> dt, res |-> Fail("UNIQUE constraint failed")]
                 ELSE
                   LET loop == RolloverLoop(dt, goc.id, unfinishedTaskIds)
                   IN IF loop.threw
                      THEN [ds |-> goc.ds, dt |-> loop.dt,
                            res |-> Fail("UNIQUE constraint failed")]
                      ELSE [ds |-> goc.ds, dt |-> loop.dt,
                            res |-> Ok(dispatch, rolledOver, goc.id)]

\* ------------------------------------------------ recurrence rule values
\* a field a request leaves out reads as undefined; JSON null is "null"
Undefined == "undefined"

Null == "null"

TASK_RECURRENCE == {"none", "daily", "weekly", "monthly", "custom"}

TASK_RECURRENCE_BEHAVIOR == {"after_completion", "duplicate_on_schedule"}

TASK_CUSTOM_RECURRENCE_UNITS == {"day", "week", "month"}

\* a recurrenceRule value: absent, null, an object with interval and unit, or
\* the JSON text of such an object
\* intervalIs tells what the interval property holds: an integer, a number
\* with a fraction (interval is then its integer part), a string or nothing
RuleValue(kind, intervalIs, interval, unit) ==
    [kind |-> kind, intervalIs |-> intervalIs, interval |-> interval, unit |-> unit]

NoRule == RuleValue("undefined", "undefined", 0, "")

NullRule == RuleValue("null", "undefined", 0, "")

RuleObject(interval, unit) == RuleValue("object", "integer", interval, unit)

RuleString(interval, unit) == RuleValue("string", "integer", interval, unit)

isTaskRecurrenceType(value) == value \in TASK_RECURRENCE

\* variant: a string is taken for a non-object, its JSON text never read
parseTaskCustomRecurrenceRuleNoText(value) ==
    IF value.kind # "object" THEN NullRule
    ELSE IF value.intervalIs # "integer" \/ value.interval < 1 \/ value.interval > 365
    THEN NullRule
    ELSE IF value.unit \notin TASK_CUSTOM_RECURRENCE_UNITS THEN NullRule
    ELSE RuleObject(value.interval, value.unit)

\* returns NullRule for null. A value of kind "string" is the JSON text of the
\* object its fields describe; one of kind "text" is a string JSON.parse throws on
parseTaskCustomRecurrenceRule(value) ==
    LET obj == IF value.kind = "string" THEN [value EXCEPT !.kind = "object"] ELSE value
    IN IF obj.kind # "object" THEN NullRule
       ELSE IF obj.intervalIs # "integer" \/ obj.interval < 1 \/ obj.interval > 365
       THEN NullRule
       ELSE IF obj.unit \notin TASK_CUSTOM_RECURRENCE_UNITS THEN NullRule
       ELSE RuleObject(obj.interval, obj.unit)

serializeTaskCustomRecurrenceRule(rule) == [rule EXCEPT !.kind = "string"]

customRecurrenceRuleSchema(value) ==
    /\ value.kind = "object"
    /\ value.intervalIs = "integer"
    /\ value.interval \in 1..365
    /\ value.unit \in TASK_CUSTOM_RECURRENCE_UNITS

trim(str) ==
    CASE str = " " -> ""
      [] str = " Day " -> "Day"
      [] str = " SAT " -> "SAT"
      [] str = " x " -> "x"
      [] OTHER -> str

\* JavaScript's !value for a string, null or undefined
Falsy(value) == value \in {Undefined, Null, ""}

\* ------------------------------------------------ recurrence calculator
\* an ISO date string is <<year, month, day>>; null is NullDate
NullDate == <<0, 0, 0>>

NoTime == [ok |-> FALSE, t |-> 0]

MaxIterations == 4000

\* date.toISOString().slice(0, 10): a year outside 0..9999 is printed with a
\* sign and six digits, and the slice then ends inside the month
toIsoDate(t) ==
    LET c == CivilFromTime(t)
    IN IF c[1] < 0 \/ c[1] > 9999 THEN <<c[1], c[2] + 1, 0>>
       ELSE <<c[1], c[2] + 1, c[3]>>

parseIsoDate(value) ==
    LET t == MakeDay(value[1], value[2] - 1, value[3])
    IN IF value[1] < 0 \/ value[1] > 9999 THEN NoTime
       ELSE IF value[2] < 1 \/ value[2] > 12 \/ value[3] < 1 \/ value[3] > 31 THEN NoTime
       ELSE IF toIsoDate(t) # value THEN NoTime
       ELSE [ok |-> TRUE, t |-> t]

addMonthsClamped(t, amount) ==
    LET c == CivilFromTime(t)
        originalDay == c[3]
        moved == CivilFromTime(MakeDay(c[1], c[2] + amount, 1))
        lastDay == CivilFromTime(DateUTC(moved[1], moved[2] + 1, 0))[3]
    IN MakeDay(moved[1], moved[2], IF originalDay < lastDay THEN originalDay ELSE lastDay)

\* returns NullRule for null
getResolvedTaskRecurrenceRule(recurrenceType, recurrenceRule) ==
    CASE recurrenceType = "none" -> NullRule
      [] recurrenceType = "daily" -> RuleObject(1, "day")
      [] recurrenceType = "weekly" -> RuleObject(1, "week")
      [] recurrenceType = "monthly" -> RuleObject(1, "month")
      [] OTHER -> parseTaskCustomRecurrenceRule(recurrenceRule)

getNextTaskRecurrenceDate(anchorIsoDate, recurrenceType, recurrenceRule) ==
    LET resolvedRule == getResolvedTaskRecurrenceRule(recurrenceType, recurrenceRule)
        anchorDate == parseIsoDate(anchorIsoDate)
    IN IF resolvedRule = NullRule THEN NullDate
       ELSE IF ~anchorDate.ok THEN NullDate
       ELSE IF resolvedRule.unit = "day"
            THEN toIsoDate(setUTCDate(anchorDate.t, resolvedRule.interval))
       ELSE IF resolvedRule.unit = "week"
            THEN toIsoDate(setUTCDate(anchorDate.t, resolvedRule.interval * 7))
       ELSE toIsoDate(addMonthsClamped(anchorDate.t, resolvedRule.interval))

\* variant: the loop stops one day short of the target
ReachedTargetEarly(cursorTime, targetTime) == cursorTime + 1 >= targetTime

\* variant: a cursor on the target itself does not count
ReachedTargetStrict(cursorTime, targetTime) == cursorTime > targetTime

\* cursorDate.getTime() >= target.getTime()
ReachedTarget(cursorTime, targetTime) == cursorTime >= targetTime

\* variant: one more iteration
LoopCeilingPlusOne == MaxIterations + 1

\* the for loop's bound
LoopCeiling == MaxIterations

\* ---------------------------------------------------------- task tools
Reject(tk, msg) == [tk |-> tk, res |-> Fail(msg)]

\* a request that supplies nothing but a status
OnlyStatus(status) ==
    [status |-> status, dueDate |-> Undefined, recurrenceType |-> Undefined,
     recurrenceBehavior |-> Undefined, recurrenceRule |-> NoRule]

\* create-task's zod input schema, for the fields modelled
CreateTaskInputOk(args) ==
    /\ args.dueDate # Null
    /\ args.recurrenceType \in TASK_RECURRENCE \cup {Undefined}
    /\ args.recurrenceBehavior \in TASK_RECURRENCE_BEHAVIOR \cup {Undefined}
    /\ \/ args.recurrenceRule \in {NoRule, NullRule}
       \/ customRecurrenceRuleSchema(args.recurrenceRule)

\* the stored rule of a created task
CreateTaskRule(recurrenceType, parsed) ==
    IF recurrenceType = "custom" THEN serializeTaskCustomRecurrenceRule(parsed) ELSE NullRule

CreateTask(tk, userId, args) ==
    LET recurrenceType ==
            IF args.recurrenceType = Undefined THEN "none" ELSE args.recurrenceType
        recurrenceBehavior ==
            IF recurrenceType = "none" THEN "after_completion"
            ELSE IF args.recurrenceBehavior = Undefined THEN "after_completion"
            ELSE args.recurrenceBehavior
        parsed == parseTaskCustomRecurrenceRule(args.recurrenceRule)
    IN IF ~CreateTaskInputOk(args) THEN Reject(tk, "Invalid arguments.")
       ELSE IF recurrenceType = "custom" /\ parsed = NullRule
       THEN Reject(tk, "Custom recurrence requires recurrenceRule with interval (1-365) and unit (day|week|month).")
       ELSE IF recurrenceType # "custom" /\ args.recurrenceRule \notin {NoRule, NullRule}
       THEN Reject(tk, "recurrenceRule can only be set when recurrenceType is custom.")
       ELSE IF /\ recurrenceType # "none"
               /\ recurrenceBehavior = "duplicate_on_schedule"
               /\ (Falsy(args.dueDate) \/ trim(args.dueDate) = "")
       THEN Reject(tk, "dueDate is required when recurrenceBehavior is duplicate_on_schedule.")
       ELSE [tk |-> Append(tk,
                       [userId |-> userId,
                        status |-> IF args.status = Undefined THEN "open" ELSE args.status,
                        deleted |-> FALSE,
                        dueDate |-> IF args.dueDate = Undefined THEN Null ELSE args.dueDate,
                        recurrenceType |-> recurrenceType,
                        recurrenceBehavior |-> recurrenceBehavior,
                        recurrenceRule |-> CreateTaskRule(recurrenceType, parsed)]),
             res |-> Ok(Len(tk) + 1, 0, NULL)]

\* update-task's zod input schema, for the fields modelled
UpdateTaskInputOk(args) ==
    /\ args.recurrenceType \in TASK_RECURRENCE \cup {Undefined}
    /\ args.recurrenceBehavior \in TASK_RECURRENCE_BEHAVIOR \cup {Undefined}
    /\ \/ args.recurrenceRule \in {NoRule, NullRule}
       \/ customRecurrenceRuleSchema(args.recurrenceRule)

\* variant: the stored rule survives a change of type
ResetRuleNever(hasRecurrenceType, rule) == rule

\* a request that names a non-custom type clears the rule
ResetRuleOnTypeChange(hasRecurrenceType, rule) ==
    IF hasRecurrenceType THEN NullRule ELSE rule

\* what update-task computes before its write: the error it throws ("" for
\* none) and the next recurrence values
UpdateTaskPlan(existing, args) ==
    LET hasRecurrenceType == args.recurrenceType # Undefined
        hasRecurrenceBehavior == args.recurrenceBehavior # Undefined
        hasRecurrenceRule == args.recurrenceRule # NoRule
        nextRecurrenceType ==
            IF hasRecurrenceType THEN args.recurrenceType ELSE existing.recurrenceType
        behavior0 ==
            IF hasRecurrenceBehavior THEN args.recurrenceBehavior
            ELSE existing.recurrenceBehavior
        nextDueDate == IF args.dueDate # Undefined THEN args.dueDate ELSE existing.dueDate
        parsed == parseTaskCustomRecurrenceRule(args.recurrenceRule)
        rule0 == IF ~hasRecurrenceRule THEN existing.recurrenceRule
                 ELSE IF args.recurrenceRule = NullRule THEN NullRule
                 ELSE serializeTaskCustomRecurrenceRule(parsed)
        nextRecurrenceRule ==
            IF nextRecurrenceType = "custom" THEN rule0
            ELSE ResetRuleOnTypeChange(hasRecurrenceType, rule0)
        nextRecurrenceBehavior ==
            IF nextRecurrenceType = "none" THEN "after_completion" ELSE behavior0
        err ==
            IF hasRecurrenceRule /\ args.recurrenceRule # NullRule /\ parsed = NullRule
            THEN "recurrenceRule must include interval (1-365) and unit (day|week|month)."
            ELSE IF nextRecurrenceType = "custom" /\ rule0 = NullRule
            THEN "recurrenceRule is required when recurrenceType is custom."
            ELSE IF /\ nextRecurrenceType # "custom"
                    /\ hasRecurrenceRule /\ args.recurrenceRule # NullRule
            THEN "recurrenceRule can only be set when recurrenceType is custom."
            ELSE IF /\ nextRecurrenceType # "none"
                    /\ behavior0 = "duplicate_on_schedule"
                    /\ Falsy(nextDueDate)
            THEN "dueDate is required when recurrenceBehavior is duplicate_on_schedule."
            ELSE ""
    IN [err |-> err,
        hasRecurrenceType |-> hasRecurrenceType,
        hasRecurrenceBehavior |-> hasRecurrenceBehavior,
        hasRecurrenceRule |-> hasRecurrenceRule,
        nextRecurrenceType |-> nextRecurrenceType,
        nextRecurrenceBehavior |-> nextRecurrenceBehavior,
        nextRecurrenceRule |-> nextRecurrenceRule]

\* the row update-task's update statement leaves
UpdateTaskWrite(row, args, plan) ==
    [row EXCEPT
        !.status = IF args.status # Undefined THEN args.status ELSE @,
        !.dueDate = IF args.dueDate # Undefined THEN args.dueDate ELSE @,
        !.recurrenceType = IF plan.hasRecurrenceType THEN plan.nextRecurrenceType ELSE @,
        !.recurrenceBehavior =
            IF plan.hasRecurrenceBehavior \/ plan.hasRecurrenceType
            THEN plan.nextRecurrenceBehavior ELSE @,
        !.recurrenceRule =
            IF plan.hasRecurrenceRule \/ plan.hasRecurrenceType
            THEN plan.nextRecurrenceRule ELSE @]

\* variant: the update statement runs before the checks
UpdateTaskWriteFirst(tk, userId, id, args) ==
    IF ~UpdateTaskInputOk(args) THEN Reject(tk, "Invalid arguments.")
    ELSE IF SelectActiveTask(tk, id, userId) = NULL THEN Reject(tk, "Task not found.")
    ELSE LET plan == UpdateTaskPlan(tk[id], args)
             written == [tk EXCEPT ![id] = UpdateTaskWrite(tk[id], args, plan)]
         IN IF plan.err # "" THEN Reject(written, plan.err)
            ELSE [tk |-> written, res |-> Ok(id, 0, NULL)]

UpdateTask(tk, userId, id, args) ==
    IF ~UpdateTaskInputOk(args) THEN Reject(tk, "Invalid arguments.")
    ELSE IF SelectActiveTask(tk, id, userId) = NULL THEN Reject(tk, "Task not found.")
    ELSE LET plan == UpdateTaskPlan(tk[id], args)
         IN IF plan.err # "" THEN Reject(tk, plan.err)
            ELSE [tk |-> [tk EXCEPT ![id] = UpdateTaskWrite(tk[id], args, plan)],
                  res |-> Ok(id, 0, NULL)]

\* PUT /api/tasks/[id]: the body's recurrenceBehavior is not read
PutTaskPlan(existing, body) ==
    LET hasRecurrenceType == body.recurrenceType # Undefined
        hasRecurrenceRule == body.recurrenceRule # NoRule
        nextRecurrenceType ==
            IF hasRecurrenceType THEN body.recurrenceType ELSE existing.recurrenceType
        parsedRule == parseTaskCustomRecurrenceRule(body.recurrenceRule)
        rule0 == IF ~hasRecurrenceRule THEN existing.recurrenceRule
                 ELSE IF body.recurrenceRule = NullRule THEN NullRule
                 ELSE serializeTaskCustomRecurrenceRule(parsedRule)
        nextRecurrenceRule ==
            IF nextRecurrenceType = "custom" THEN rule0
            ELSE ResetRuleOnTypeChange(hasRecurrenceType, rule0)
        err ==
            IF hasRecurrenceRule /\ body.recurrenceRule # NullRule /\ parsedRule = NullRule
            THEN "recurrenceRule must include interval (1-365) and unit (day|week|month)"
            ELSE IF nextRecurrenceType = "custom" /\ rule0 = NullRule
            THEN "recurrenceRule is required when recurrenceType is custom"
            ELSE IF /\ nextRecurrenceType # "custom"
                    /\ hasRecurrenceRule /\ body.recurrenceRule # NullRule
            THEN "recurrenceRule can only be set when recurrenceType is custom"
            ELSE ""
    IN [err |-> err,
        hasRecurrenceType |-> hasRecurrenceType,
        hasRecurrenceRule |-> hasRecurrenceRule,
        nextRecurrenceType |-> nextRecurrenceType,
        nextRecurrenceRule |-> nextRecurrenceRule]

PutTaskWrite(row, body, plan) ==
    [row EXCEPT
        !.status = IF body.status # Undefined THEN body.status ELSE @,
        !.dueDate = IF body.dueDate # Undefined THEN body.dueDate ELSE @,
        !.recurrenceType = IF plan.hasRecurrenceType THEN plan.nextRecurrenceType ELSE @,
        !.recurrenceRule =
            IF plan.hasRecurrenceRule \/ plan.hasRecurrenceType
            THEN plan.nextRecurrenceRule ELSE @]

PutTask(tk, userId, id, body) ==
    IF body.status # Undefined /\ body.status \notin TASK_STATUS
    THEN Reject(tk, "Invalid status. Must be one of: open, in_progress, done")
    ELSE IF body.recurrenceType # Undefined /\ ~isTaskRecurrenceType(body.recurrenceType)
    THEN Reject(tk, "recurrenceType must be one of: none, daily, weekly, monthly, custom")
    ELSE IF SelectActiveTask(tk, id, userId) = NULL THEN Reject(tk, "Task not found")
    ELSE LET plan == PutTaskPlan(tk[id], body)
         IN IF plan.err # "" THEN Reject(tk, plan.err)
            ELSE [tk |-> [tk EXCEPT ![id] = PutTaskWrite(tk[id], body, plan)],
                  res |-> Ok(id, 0, NULL)]

CompleteTask(tk, userId, id) ==
    IF SelectActiveTask(tk, id, userId) = NULL
    THEN [tk |-> tk, res |-> Fail("Task not found.")]
    ELSE [tk |-> [tk EXCEPT ![id].status = "done"], res |-> Ok(id, 0, NULL)]

DeleteTask(tk, userId, id) ==
    IF SelectActiveTask(tk, id, userId) = NULL
    THEN [tk |-> tk, res |-> Fail("Task not found.")]
    ELSE [tk |-> [tk EXCEPT ![id].deleted = TRUE], res |-> Ok(id, 0, NULL)]

\* ------------------------------------------------------ template renderer
\* A template is a sequence of tokens: literal text, {{if:CONDITION}},
\* {{/if}} and {{date:FORMAT}}. A condition is what split("&") makes of it, a
\* sequence of parts, each part what split("=") makes of it, a sequence of
\* strings. A format is the sequence of format codes and literals the format
\* pattern cuts it into.
SHORT_DAY_NAMES == <<"sun", "mon", "tue", "wed", "thu", "fri", "sat">>

LONG_DAY_NAMES ==
    <<"sunday", "monday", "tuesday", "wednesday", "thursday", "friday", "saturday">>

SHORT_MONTH_NAMES ==
    <<"jan", "feb", "mar", "apr", "may", "jun", "jul", "aug", "sep", "oct", "nov", "dec">>

LONG_MONTH_NAMES ==
    <<"january", "february", "march", "april", "may", "june", "july", "august",
      "september", "october", "november", "december">>

Text(str) == [kind |-> "text", text |-> str, cond |-> <<>>, format |-> <<>>]

If(condition) == [kind |-> "if", text |-> "", cond |-> condition, format |-> <<>>]

EndIf == [kind |-> "endif", text |-> "", cond |-> <<>>, format |-> <<>>]

DateToken(format) == [kind |-> "date", text |-> "", cond |-> <<>>, format |-> format]

toLowerCase(str) ==
    CASE str = "Day" -> "day"
      [] str = "SAT" -> "sat"
      [] OTHER -> str

\* String(n).padStart(2, "0") for n >= 0
padStart2(n) == IF n < 10 THEN "0" \o ToString(n) ELSE ToString(n)

\* the text of an ISO date
IsoText(iso) ==
    (IF iso[1] < 10 THEN "000" ELSE IF iso[1] < 100 THEN "00"
     ELSE IF iso[1] < 1000 THEN "0" ELSE "")
    \o ToString(iso[1]) \o "-" \o padStart2(iso[2]) \o "-" \o padStart2(iso[3])

getUTCDay(t) == (t + 4) % 7

parseIsoDateParts(iso) ==
    [iso |-> iso, year |-> iso[1], month |-> iso[2], dayOfMonth |-> iso[3],
     dayOfWeek |-> getUTCDay(DateUTC(iso[1], iso[2] - 1, iso[3]))]

\* one check of the for loop: TRUE for continue, FALSE for return false
CheckPasses(check, dateParts) ==
    IF Len(check) < 2 \/ trim(check[1]) = "" THEN FALSE
    ELSE LET key == toLowerCase(trim(check[1]))
             value == toLowerCase(trim(check[2]))
         IN IF key = "day"
            THEN value \in {SHORT_DAY_NAMES[dateParts.dayOfWeek + 1],
                            LONG_DAY_NAMES[dateParts.dayOfWeek + 1],
                            ToString(dateParts.dayOfWeek)}
            ELSE IF key = "month"
            THEN value \in {SHORT_MONTH_NAMES[dateParts.month],
                            LONG_MONTH_NAMES[dateParts.month],
                            ToString(dateParts.month), padStart2(dateParts.month)}
            ELSE IF key = "dom"
            THEN value \in {ToString(dateParts.dayOfMonth), padStart2(dateParts.dayOfMonth)}
            ELSE IF key = "year"
            THEN value = ToString(dateParts.year)
            ELSE IF key = "date"
            THEN value = toLowerCase(IsoText(dateParts.iso))
            ELSE FALSE

\* a part that is empty once trimmed is filtered out
NonEmptyPart(part) == ~(Len(part) = 1 /\ trim(part[1]) = "")

evaluateCondition(condition, dateParts) ==
    LET checks == SelectSeq(condition, NonEmptyPart)
    IN /\ Len(checks) > 0
       /\ \A k \in 1..Len(checks) : CheckPasses(checks[k], dateParts)

\* output.replace(conditionalPattern, ...): from the left, an {{if:...}} is
\* matched with the first {{/if}} after it and the match is replaced; the scan
\* goes on behind the match
RECURSIVE ReplaceBlocks(_, _, _)
ReplaceBlocks(output, from, dateParts) ==
    IF from > Len(output) THEN <<>>
    ELSE LET closes == {j \in (from + 1)..Len(output) : output[j].kind = "endif"}
         IN IF output[from].kind = "if" /\ closes # {}
            THEN (IF evaluateCondition(output[from].cond, dateParts)
                  THEN SubSeq(output, from + 1, Min(closes) - 1) ELSE <<>>)
                 \o ReplaceBlocks(output, Min(closes) + 1, dateParts)
            ELSE <<output[from]>> \o ReplaceBlocks(output, from + 1, dateParts)

MaxPasses == 16

\* variant: one more pass
PassCeilingPlusOne == MaxPasses + 1

\* the for loop's bound
PassCeiling == MaxPasses

RECURSIVE BlocksLoop(_, _, _)
BlocksLoop(output, i, dateParts) ==
    IF i >= PassCeiling THEN output
    ELSE LET next == ReplaceBlocks(output, 1, dateParts)
         IN IF next = output THEN output ELSE BlocksLoop(next, i + 1, dateParts)

renderConditionalBlocks(input, dateParts) == BlocksLoop(input, 0, dateParts)

\* String(year).slice(-2)
LastTwo(year) == IF year < 10 THEN ToString(year) ELSE padStart2(year % 100)

tokenMap(iso) ==
    LET dayOfWeek == getUTCDay(DateUTC(iso[1], iso[2] - 1, iso[3]))
    IN [code \in {"YYYY", "YY", "MMMM", "MMM", "MM", "M", "DD", "D", "dddd", "ddd"} |->
          CASE code = "YYYY" -> ToString(iso[1])
            [] code = "YY" -> LastTwo(iso[1])
            [] code = "MMMM" -> LONG_MONTH_NAMES[iso[2]]
            [] code = "MMM" -> SHORT_MONTH_NAMES[iso[2]]
            [] code = "MM" -> padStart2(iso[2])
            [] code = "M" -> ToString(iso[2])
            [] code = "DD" -> padStart2(iso[3])
            [] code = "D" -> ToString(iso[3])
            [] code = "dddd" -> LONG_DAY_NAMES[dayOfWeek + 1]
            [] code = "ddd" -> SHORT_DAY_NAMES[dayOfWeek + 1]]

RECURSIVE formatIsoDate(_, _)
formatIsoDate(iso, format) ==
    IF format = <<>> THEN ""
    ELSE (IF Head(format) \in DOMAIN tokenMap(iso) THEN tokenMap(iso)[Head(format)]
          ELSE Head(format))
         \o formatIsoDate(iso, Tail(format))

\* the replacement of one {{date:FORMAT}}; a blank format gives the ISO date
DateText(token, referenceIso) ==
    IF \A k \in 1..Len(token.format) : trim(token.format[k]) = ""
    THEN Text(IsoText(referenceIso))
    ELSE Text(formatIsoDate(referenceIso, token.format))

renderTemplate(input, referenceIso) ==
    IF input = <<>> THEN <<>>
    ELSE LET withConditionals ==
                 renderConditionalBlocks(input, parseIsoDateParts(referenceIso))
         IN [k \in 1..Len(withConditionals) |->
                IF withConditionals[k].kind = "date"
                THEN DateText(withConditionals[k], referenceIso)
                ELSE withConditionals[k]]

\* no rendering in progress
NoRender ==
    [pc |-> "idle", fn |-> "", input |-> <<>>, referenceIso |-> <<0, 0, 0>>,
     output |-> <<>>, i |-> 0, passes |-> 0, result |-> <<>>]

\* ------------------------------------------------------- template presets
MAX_PRESETS_PER_KIND == 50

\* the value of one property of a JSON entry
JString(str) == [type |-> "string", text |-> str]

JNumber == [type |-> "number", text |-> ""]

JUndefined == [type |-> "undefined", text |-> ""]

\* a JSON task template entry; type is "object" or what else the entry is
TaskEntry(id, name, title, description, recurrenceType, recurrenceBehavior, recurrenceRule) ==
    [type |-> "object", id |-> id, name |-> name, title |-> title,
     description |-> description, recurrenceType |-> recurrenceType,
     recurrenceBehavior |-> recurrenceBehavior, recurrenceRule |-> recurrenceRule]

TextEntry(id, name, content) ==
    [type |-> "object", id |-> id, name |-> name, content |-> content]

\* a property holding an array, and one holding something else
Array(items) == [isArray |-> TRUE, items |-> items]

NotArray == [isArray |-> FALSE, items |-> <<>>]

ensureString(value) ==
    IF value.type # "string" THEN [threw |-> TRUE, value |-> ""]
    ELSE [threw |-> FALSE, value |-> trim(value.text)]

NoTaskPreset ==
    [id |-> "", name |-> "", title |-> "", description |-> "", recurrenceType |-> "none",
     recurrenceRule |-> NullRule]

parseTaskPreset(value) ==
    IF value.type # "object" THEN [threw |-> TRUE, preset |-> NoTaskPreset]
    ELSE LET id == ensureString(value.id)
             name == ensureString(value.name)
             title == ensureString(value.title)
             description ==
                 IF value.description.type = "string" THEN value.description.text ELSE ""
             recurrenceType ==
                 IF /\ value.recurrenceType.type = "string"
                    /\ isTaskRecurrenceType(value.recurrenceType.text)
                 THEN value.recurrenceType.text ELSE "none"
             parsedRule == parseTaskCustomRecurrenceRule(value.recurrenceRule)
         IN IF id.threw \/ name.threw \/ title.threw THEN [threw |-> TRUE, preset |-> NoTaskPreset]
            ELSE IF id.value = "" \/ name.value = "" \/ title.value = ""
            THEN [threw |-> TRUE, preset |-> NoTaskPreset]
            ELSE IF recurrenceType = "custom" /\ parsedRule = NullRule
            THEN [threw |-> TRUE, preset |-> NoTaskPreset]
            ELSE [threw |-> FALSE,
                  preset |-> [id |-> id.value, name |-> name.value, title |-> title.value,
                              description |-> description,
                              recurrenceType |-> recurrenceType,
                              recurrenceRule |->
                                  IF recurrenceType = "custom"
                                  THEN serializeTaskCustomRecurrenceRule(parsedRule)
                                  ELSE NullRule]]

NoTextPreset == [id |-> "", name |-> "", content |-> ""]

parseTextPreset(value) ==
    IF value.type # "object" THEN [threw |-> TRUE, preset |-> NoTextPreset]
    ELSE LET id == ensureString(value.id)
             name == ensureString(value.name)
             content == ensureString(value.content)
         IN IF id.threw \/ name.threw \/ content.threw
            THEN [threw |-> TRUE, preset |-> NoTextPreset]
            ELSE IF id.value = "" \/ name.value = ""
            THEN [threw |-> TRUE, preset |-> NoTextPreset]
            ELSE [threw |-> FALSE,
                  preset |-> [id |-> id.value, name |-> name.value,
                              content |-> content.value]]

\* variant: one preset more is let through
ensureArrayLimitLoose(items) == Len(items) > MAX_PRESETS_PER_KIND + 1

\* TRUE when it throws
ensureArrayLimit(items) == Len(items) > MAX_PRESETS_PER_KIND

emptyTemplatePresets == [tasks |-> <<>>, notes |-> <<>>, dispatches |-> <<>>]

\* the three map and ensureArrayLimit calls both entry points share
ParsePresetArrays(tasksRaw, notesRaw, dispatchesRaw) ==
    IF \/ \E k \in 1..Len(tasksRaw) : parseTaskPreset(tasksRaw[k]).threw
       \/ ensureArrayLimit(tasksRaw)
       \/ \E k \in 1..Len(notesRaw) : parseTextPreset(notesRaw[k]).threw
       \/ ensureArrayLimit(notesRaw)
       \/ \E k \in 1..Len(dispatchesRaw) : parseTextPreset(dispatchesRaw[k]).threw
       \/ ensureArrayLimit(dispatchesRaw)
    THEN [threw |-> TRUE, presets |-> emptyTemplatePresets]
    ELSE [threw |-> FALSE,
          presets |->
              [tasks |-> [k \in 1..Len(tasksRaw) |-> parseTaskPreset(tasksRaw[k]).preset],
               notes |-> [k \in 1..Len(notesRaw) |-> parseTextPreset(notesRaw[k]).preset],
               dispatches |-> [k \in 1..Len(dispatchesRaw) |->
                                   parseTextPreset(dispatchesRaw[k]).preset]]]

\* a templatePresets payload: type is "object", "null", "string" or "undefined"
Payload(tasksRaw, notesRaw, dispatchesRaw) ==
    [type |-> "object", tasks |-> tasksRaw, notes |-> notesRaw,
     dispatches |-> dispatchesRaw]

UndefinedPayload ==
    [type |-> "undefined", tasks |-> NotArray, notes |-> NotArray, dispatches |-> NotArray]

NullPayload ==
    [type |-> "null", tasks |-> NotArray, notes |-> NotArray, dispatches |-> NotArray]

validateTemplatePresetsInput(value) ==
    IF value.type # "object" THEN [threw |-> TRUE, presets |-> emptyTemplatePresets]
    ELSE IF ~value.tasks.isArray \/ ~value.notes.isArray \/ ~value.dispatches.isArray
    THEN [threw |-> TRUE, presets |-> emptyTemplatePresets]
    ELSE ParsePresetArrays(value.tasks.items, value.notes.items, value.dispatches.items)

\* the templatePresets column: null, or the JSON text of the presets
StoredNull == [kind |-> "null", presets |-> emptyTemplatePresets]

serializeTemplatePresets(value) == [kind |-> "string", presets |-> value]

\* JSON.parse of the stored text: the entries as JSON objects
TaskEntryOf(preset) ==
    TaskEntry(JString(preset.id), JString(preset.name), JString(preset.title),
              JString(preset.description), JString(preset.recurrenceType), JUndefined,
              preset.recurrenceRule)

TextEntryOf(preset) ==
    TextEntry(JString(preset.id), JString(preset.name), JString(preset.content))

parseStoredTemplatePresets(value) ==
    IF value.kind # "string" THEN emptyTemplatePresets
    ELSE LET parsed ==
                 ParsePresetArrays(
                     [k \in 1..Len(value.presets.tasks) |-> TaskEntryOf(value.presets.tasks[k])],
                     [k \in 1..Len(value.presets.notes) |-> TextEntryOf(value.presets.notes[k])],
                     [k \in 1..Len(value.presets.dispatches) |->
                         TextEntryOf(value.presets.dispatches[k])])
         IN IF parsed.threw THEN emptyTemplatePresets ELSE parsed.presets

\* the preference row of the session's user
NoPreferences == [templatePresets |-> StoredNull, others |-> "default"]

\* the last response: no request yet
NoExchange == [method |-> "", status |-> 0, templatePresets |-> emptyTemplatePresets]

\* PUT /api/me. other stands for showAdminQuickAccess, assistantEnabled and
\* timeZone together: "absent", "valid" or "invalid"
PutMe(row, body) ==
    LET validated == validateTemplatePresetsInput(body.templatePresets)
        given == body.templatePresets.type # "undefined"
        rejected == [row |-> row,
                     res |-> [method |-> "PUT", status |-> 400,
                              templatePresets |-> emptyTemplatePresets]]
    IN IF body.other = "invalid" THEN rejected
       ELSE IF given /\ validated.threw THEN rejected
       ELSE IF body.other = "absent" /\ ~given THEN rejected
       ELSE LET updated ==
                    [row EXCEPT
                        !.others = IF body.other = "valid" THEN "updated" ELSE @,
                        !.templatePresets =
                            IF given THEN serializeTemplatePresets(validated.presets)
                            ELSE @]
            IN [row |-> updated,
                res |-> [method |-> "PUT", status |-> 200,
                         templatePresets |->
                             parseStoredTemplatePresets(updated.templatePresets)]]

\* GET /api/me
GetMe(row) ==
    [method |-> "GET", status |-> 200,
     templatePresets |-> parseStoredTemplatePresets(row.templatePresets)]

\* ------------------------------------------------- in-flight tool calls
\* the row a call holds before its select has run
NoRow ==
    [userId |-> "", status |-> "open", deleted |-> FALSE, dueDate |-> Null,
     recurrenceType |-> "none", recurrenceBehavior |-> "after_completion",
     recurrenceRule |-> NullRule]

Idle ==
    [pc |-> "idle", op |-> "", caller |-> "", dispatchId |-> NULL, taskId |-> NULL,
     date |-> <<0, 0, 0>>, todo |-> {}, count |-> 0, next |-> NULL, res |-> Fail(""),
     args |-> OnlyStatus(Undefined), existing |-> NoRow]

\* no recurrence calculation in progress
NoCalc ==
    [pc |-> "idle", fn |-> "", anchor |-> <<0, 0, 0>>, recurrenceType |-> "none",
     recurrenceRule |-> NullRule, target |-> <<0, 0, 0>>, cursor |-> <<0, 0, 0>>,
     i |-> 0, advances |-> 0, result |-> <<0, 0, 0>>, parsed |-> NullRule]

\* ----------------------------------------------------------- initial state
Init ==
    /\ dispatches = <<>>
    /\ dispatchTasks = <<>>
    /\ tasks = <<>>
    /\ now \in StartDays
    /\ procs = [p \in Procs |-> Idle]
    /\ calc = NoCalc
    /\ users = NoPreferences
    /\ http = NoExchange
    /\ render = NoRender

\* ------------------------------------------- whole tool calls, one at a time
Tick ==
    /\ \E s \in StartDays : s <= now /\ now < s + MaxTicks
    /\ now' = now + 1
    /\ UNCHANGED <<users, http, render, calc, dispatches, dispatchTasks, tasks, procs>>

CreateTaskCall(u, status) ==
    /\ Len(tasks) < MaxTasks
    /\ tasks' = CreateTask(tasks, u, OnlyStatus(status)).tk
    /\ UNCHANGED <<users, http, render, calc, dispatches, dispatchTasks, now, procs>>

CompleteTaskCall(u, id) ==
    LET r == CompleteTask(tasks, u, id)
    IN /\ tasks' = r.tk
       /\ UNCHANGED <<users, http, render, calc, dispatches, dispatchTasks, now, procs>>

DeleteTaskCall(u, id) ==
    LET r == DeleteTask(tasks, u, id)
    IN /\ tasks' = r.tk
       /\ UNCHANGED <<users, http, render, calc, dispatches, dispatchTasks, now, procs>>

GetTodayDispatchCall(u) ==
    LET r == GetTodayDispatch(dispatches, dispatchTasks, u)
    IN /\ Len(r.ds) <= MaxDispatches
       /\ dispatches' = r.ds
       /\ dispatchTasks' = r.dt
       /\ UNCHANGED <<users, http, render, calc, tasks, now, procs>>

UpdateDispatchSummaryCall(u, summary, d) ==
    LET r == UpdateDispatchSummary(dispatches, dispatchTasks, u, summary, d)
    IN /\ Len(r.ds) <= MaxDispatches
       /\ dispatches' = r.ds
       /\ dispatchTasks' = r.dt
       /\ UNCHANGED <<users, http, render, calc, tasks, now, procs>>

LinkTaskToDispatchCall(u, d, t) ==
    LET r == LinkTaskToDispatch(dispatches, dispatchTasks, tasks, u, d, t)
    IN /\ dispatches' = r.ds
       /\ dispatchTasks' = r.dt
       /\ UNCHANGED <<users, http, render, calc, tasks, now, procs>>

UnlinkTaskFromDispatchCall(u, d, t) ==
    LET r == UnlinkTaskFromDispatch(dispatches, dispatchTasks, u, d, t)
    IN /\ dispatches' = r.ds
       /\ dispatchTasks' = r.dt
       /\ UNCHANGED <<users, http, render, calc, tasks, now, procs>>

CompleteDispatchCall(u, d) ==
    LET r == CompleteDispatch(dispatches, dispatchTasks, tasks, u, d)
    IN /\ Len(r.ds) <= MaxDispatches
       /\ dispatches' = r.ds
       /\ dispatchTasks' = r.dt
       /\ UNCHANGED <<users, http, render, calc, tasks, now, procs>>

Next ==
    \/ Tick
    \/ \E u \in Users, status \in CreateStatuses : CreateTaskCall(u, status)
    \/ \E u \in Actors, id \in TaskIds : CompleteTaskCall(u, id)
    \/ \E u \in Actors, id \in TaskIds : DeleteTaskCall(u, id)
    \/ \E u \in Users : GetTodayDispatchCall(u)
    \/ \E u \in Actors, s \in Summaries, d \in DispatchIds \cup {NULL} :
          UpdateDispatchSummaryCall(u, s, d)
    \/ \E u \in Actors, d \in DispatchIds, t \in TaskIds : LinkTaskToDispatchCall(u, d, t)
    \/ \E u \in Actors, d \in DispatchIds, t \in TaskIds : UnlinkTaskFromDispatchCall(u, d, t)
    \/ \E u \in Actors, d \in DispatchIds : CompleteDispatchCall(u, d)

Spec == Init /\ [][Next]_vars

\* one user's day of task work and dispatch completion, the clock standing still
NextCompletion ==
    \/ \E u \in Actors, status \in CreateStatuses : CreateTaskCall(u, status)
    \/ \E u \in Actors, id \in TaskIds : CompleteTaskCall(u, id)
    \/ \E u \in Actors, id \in TaskIds : DeleteTaskCall(u, id)
    \/ \E u \in Actors : GetTodayDispatchCall(u)
    \/ \E u \in Actors, d \in DispatchIds, t \in TaskIds : LinkTaskToDispatchCall(u, d, t)
    \/ \E u \in Actors, d \in DispatchIds, t \in TaskIds : UnlinkTaskFromDispatchCall(u, d, t)
    \/ \E u \in Actors, d \in DispatchIds : CompleteDispatchCall(u, d)

SpecCompletion == Init /\ [][NextCompletion]_vars

\* the dispatch editing tools with two users' dispatches side by side, tasks
\* either open or soft-deleted, the clock standing still
NextEditing ==
    \/ \E u \in Users : CreateTaskCall(u, "open")
    \/ \E u \in Actors, id \in TaskIds : DeleteTaskCall(u, id)
    \/ \E u \in Users : GetTodayDispatchCall(u)
    \/ \E u \in Actors, s \in Summaries, d \in DispatchIds \cup {NULL} :
          UpdateDispatchSummaryCall(u, s, d)
    \/ \E u \in Actors, d \in DispatchIds, t \in TaskIds : LinkTaskToDispatchCall(u, d, t)
    \/ \E u \in Actors, d \in DispatchIds, t \in TaskIds : UnlinkTaskFromDispatchCall(u, d, t)
    \/ \E u \in Actors, d \in DispatchIds : CompleteDispatchCall(u, d)

SpecEditing == Init /\ [][NextEditing]_vars

\* ------------------------------------------- task requests with recurrence
\* daily, weekly and monthly take the same path through every handler
TypeArgs == {Undefined, "none", "monthly", "custom"}

BehaviorArgs == TASK_RECURRENCE_BEHAVIOR \cup {Undefined}

DueArgs == {Undefined, Null, "2024-01-31"}

\* absent, null, a well-formed rule and one whose interval is out of range
RuleArgs == {NoRule, NullRule, RuleObject(2, "month"), RuleObject(0, "day")}

TaskArgs ==
    [status : {Undefined}, dueDate : DueArgs, recurrenceType : TypeArgs,
     recurrenceBehavior : BehaviorArgs, recurrenceRule : RuleArgs]

\* a PUT body is any JSON: the type may be no recurrence type, the rule may be
\* JSON text
PutBodies ==
    [status : {Undefined}, dueDate : DueArgs, recurrenceType : TypeArgs \cup {"yearly"},
     recurrenceRule : RuleArgs \cup {RuleString(2, "month")}]

CreateTaskRequest(u, args) ==
    LET r == CreateTask(tasks, u, args)
    IN /\ Len(r.tk) <= MaxTasks
       /\ tasks' = r.tk
       /\ UNCHANGED <<users, http, render, calc, dispatches, dispatchTasks, now, procs>>

UpdateTaskCall(u, id, args) ==
    LET r == UpdateTask(tasks, u, id, args)
    IN /\ tasks' = r.tk
       /\ UNCHANGED <<users, http, render, calc, dispatches, dispatchTasks, now, procs>>

PutTaskCall(u, id, body) ==
    LET r == PutTask(tasks, u, id, body)
    IN /\ tasks' = r.tk
       /\ UNCHANGED <<users, http, render, calc, dispatches, dispatchTasks, now, procs>>

NextTasks ==
    \/ \E u \in Actors, args \in TaskArgs : CreateTaskRequest(u, args)
    \/ \E u \in Actors, id \in TaskIds, args \in TaskArgs : UpdateTaskCall(u, id, args)
    \/ \E u \in Actors, id \in TaskIds, body \in PutBodies : PutTaskCall(u, id, body)

SpecTasks == Init /\ [][NextTasks]_vars

\* ------------------------------------------ recurrence calculator calls
\* month ends in leap and common years, year ends, the first and last years an
\* ISO date can name, and two strings that name no date
CalcAnchors ==
    {<<2024, 1, 31>>, <<2023, 1, 31>>, <<2024, 1, 29>>, <<2023, 1, 28>>, <<2024, 2, 29>>,
     <<2024, 3, 31>>, <<2024, 5, 31>>, <<2024, 8, 31>>, <<2023, 11, 30>>, <<2023, 12, 31>>,
     <<2100, 1, 30>>, <<2000, 1, 31>>, <<0, 1, 31>>, <<9999, 12, 30>>, <<9999, 12, 31>>,
     <<2023, 2, 30>>, <<2024, 13, 1>>}

\* stored (recurrenceType, recurrenceRule) pairs: the last rule is unparseable
CalcRules ==
    {<<"none", NullRule>>, <<"daily", NullRule>>, <<"weekly", NullRule>>,
     <<"monthly", NullRule>>, <<"custom", NullRule>>,
     <<"custom", RuleString(1, "month")>>, <<"custom", RuleString(2, "month")>>,
     <<"custom", RuleString(12, "month")>>, <<"custom", RuleString(13, "month")>>,
     <<"custom", RuleString(3, "day")>>, <<"custom", RuleString(2, "week")>>,
     <<"custom", RuleString(0, "day")>>}

\* targets are taken this many days from the anchor
TargetOffsets == {0 - 400, 0 - 1, 0, 1, 10, 45}

TargetsFor(anchor) ==
    IF parseIsoDate(anchor).ok
    THEN {toIsoDate(parseIsoDate(anchor).t + k) : k \in TargetOffsets} \cup {<<2024, 2, 30>>}
    ELSE {<<2024, 1, 1>>}

\* a daily task whose target lies around the loop's ceiling
CeilingAnchor == <<2024, 1, 1>>

CeilingTargets ==
    {toIsoDate(parseIsoDate(CeilingAnchor).t + k) :
        k \in {MaxIterations - 1, MaxIterations, MaxIterations + 1}}

\* values a recurrenceRule can arrive as: intervals at and around both ends of
\* the range, known and unknown units, every kind of value
RuleIntervals == {0 - 1, 0, 1, 2, 364, 365, 366}

RuleUnits == TASK_CUSTOM_RECURRENCE_UNITS \cup {"year", ""}

RuleValues ==
    {RuleValue(k, n, i, u) :
        k \in {"object", "string"}, n \in {"integer", "fraction", "string", "undefined"},
        i \in RuleIntervals, u \in RuleUnits}
    \cup {NoRule, NullRule, RuleValue("text", "undefined", 0, ""),
          RuleValue("number", "undefined", 0, "")}

StartCalc(fn, anchor, rule, target) ==
    [pc |-> "start", fn |-> fn, anchor |-> anchor, recurrenceType |-> rule[1],
     recurrenceRule |-> rule[2], target |-> target, cursor |-> NullDate,
     i |-> 0, advances |-> 0, result |-> NullDate, parsed |-> NullRule]

CalcInputs ==
    {StartCalc("next", a, r, NullDate) : a \in CalcAnchors, r \in CalcRules}
    \cup UNION {{StartCalc("onOrAfter", a, r, t) : r \in CalcRules, t \in TargetsFor(a)} :
                   a \in CalcAnchors}
    \cup {StartCalc("onOrAfter", CeilingAnchor, <<"daily", NullRule>>, t) :
             t \in CeilingTargets}
    \cup {StartCalc("parse", NullDate, <<"custom", v>>, NullDate) : v \in RuleValues}
    \cup {StartCalc("roundTrip", NullDate, <<"custom", v>>, NullDate) :
             v \in {w \in RuleValues : w.kind = "object"}}

InitRecurrence ==
    /\ dispatches = <<>>
    /\ dispatchTasks = <<>>
    /\ tasks = <<>>
    /\ now \in StartDays
    /\ procs = [p \in Procs |-> Idle]
    /\ calc \in CalcInputs
    /\ users = NoPreferences
    /\ http = NoExchange
    /\ render = NoRender

Return(result) == [calc EXCEPT !.pc = "done", !.result = result]

GetNextTaskRecurrenceDateCall ==
    /\ calc.pc = "start" /\ calc.fn = "next"
    /\ calc' = Return(getNextTaskRecurrenceDate(calc.anchor, calc.recurrenceType,
                                                calc.recurrenceRule))
    /\ UNCHANGED <<users, http, render, dispatches, dispatchTasks, tasks, now, procs>>

ParseRuleCall ==
    /\ calc.pc = "start" /\ calc.fn = "parse"
    /\ calc' = [calc EXCEPT !.pc = "done",
                            !.parsed = parseTaskCustomRecurrenceRule(calc.recurrenceRule)]
    /\ UNCHANGED <<users, http, render, dispatches, dispatchTasks, tasks, now, procs>>

\* the rule is written to its stored form and read back
RoundTripCall ==
    /\ calc.pc = "start" /\ calc.fn = "roundTrip"
    /\ calc' = [calc EXCEPT
                   !.pc = "done",
                   !.parsed = parseTaskCustomRecurrenceRule(
                                  serializeTaskCustomRecurrenceRule(calc.recurrenceRule))]
    /\ UNCHANGED <<users, http, render, dispatches, dispatchTasks, tasks, now, procs>>

\* let cursor = anchorIsoDate; the target is parsed once
OnOrAfterEnter ==
    /\ calc.pc = "start" /\ calc.fn = "onOrAfter"
    /\ calc' = IF ~parseIsoDate(calc.target).ok THEN Return(NullDate)
               ELSE [calc EXCEPT !.pc = "loop", !.cursor = calc.anchor, !.i = 0]
    /\ UNCHANGED <<users, http, render, dispatches, dispatchTasks, tasks, now, procs>>

\* one pass through the loop body
OnOrAfterIterate ==
    /\ calc.pc = "loop" /\ calc.i < LoopCeiling
    /\ LET cursorDate == parseIsoDate(calc.cursor)
           target == parseIsoDate(calc.target)
           next == getNextTaskRecurrenceDate(calc.cursor, calc.recurrenceType,
                                             calc.recurrenceRule)
       IN calc' = IF ~cursorDate.ok THEN Return(NullDate)
                  ELSE IF ReachedTarget(cursorDate.t, target.t) THEN Return(calc.cursor)
                  ELSE IF next = NullDate
                  THEN [Return(NullDate) EXCEPT !.advances = calc.advances + 1]
                  ELSE [calc EXCEPT !.cursor = next, !.i = calc.i + 1,
                                    !.advances = calc.advances + 1]
    /\ UNCHANGED <<users, http, render, dispatches, dispatchTasks, tasks, now, procs>>

\* the loop ran out
OnOrAfterExhausted ==
    /\ calc.pc = "loop" /\ calc.i >= LoopCeiling
    /\ calc' = Return(NullDate)
    /\ UNCHANGED <<users, http, render, dispatches, dispatchTasks, tasks, now, procs>>

NextRecurrence ==
    \/ GetNextTaskRecurrenceDateCall
    \/ ParseRuleCall
    \/ RoundTripCall
    \/ OnOrAfterEnter
    \/ OnOrAfterIterate
    \/ OnOrAfterExhausted

SpecRecurrence == InitRecurrence /\ [][NextRecurrence]_vars

\* the rollover path alone, started on the days before month, year and
\* leap-day boundaries
RolloverStartDates ==
    {<<2023, 12, 30>>, <<2024, 12, 30>>, <<2024, 2, 28>>, <<2023, 2, 27>>,
     <<2100, 2, 27>>, <<2024, 4, 29>>}

RolloverStartDays == {DateUTC(d[1], d[2] - 1, d[3]) : d \in RolloverStartDates}

InitRollover ==
    /\ dispatches = <<>>
    /\ dispatchTasks = <<>>
    /\ tasks = <<>>
    /\ now \in RolloverStartDays
    /\ procs = [p \in Procs |-> Idle]
    /\ calc = NoCalc
    /\ users = NoPreferences
    /\ http = NoExchange
    /\ render = NoRender

TickRollover ==
    /\ \E s \in RolloverStartDays : s <= now /\ now < s + MaxTicks
    /\ now' = now + 1
    /\ UNCHANGED <<users, http, render, calc, dispatches, dispatchTasks, tasks, procs>>

NextRollover ==
    \/ TickRollover
    \/ \E u \in Actors : CreateTaskCall(u, "open")
    \/ \E u \in Actors : GetTodayDispatchCall(u)
    \/ \E u \in Actors, d \in DispatchIds, t \in TaskIds : LinkTaskToDispatchCall(u, d, t)
    \/ \E u \in Actors, d \in DispatchIds : CompleteDispatchCall(u, d)

SpecRollover == InitRollover /\ [][NextRollover]_vars

\* ---------------------------------- tool calls interleaved at each await
\* a call runs one database statement per step; other calls run in between
Done(p, res) == [procs[p] EXCEPT !.pc = "done", !.res = res]

Free(p) == procs[p].pc \in {"idle", "done"}

\* get-today-dispatch: read the clock, then getOrCreateDispatch's select
StartGetTodayDispatch(p, u) ==
    /\ Free(p)
    /\ procs' = [procs EXCEPT ![p] =
                    [Idle EXCEPT !.pc = "goc_select", !.op = "get-today-dispatch",
                                 !.caller = u, !.date = todayISODate]]
    /\ UNCHANGED <<users, http, render, calc, dispatches, dispatchTasks, tasks, now>>

GocSelect(p) ==
    /\ procs[p].pc = "goc_select"
    /\ LET existing == SelectDispatchByUserDate(dispatches, procs[p].caller, procs[p].date)
       IN procs' = [procs EXCEPT ![p] =
                       IF existing # NULL THEN Done(p, Ok(existing, 0, NULL))
                       ELSE [@ EXCEPT !.pc = "goc_insert"]]
    /\ UNCHANGED <<users, http, render, calc, dispatches, dispatchTasks, tasks, now>>

GocInsert(p) ==
    /\ procs[p].pc = "goc_insert"
    /\ Len(dispatches) < MaxDispatches
    /\ IF DispatchKeyFree(dispatches, procs[p].caller, procs[p].date)
       THEN /\ dispatches' = InsertDispatch(dispatches, procs[p].caller, procs[p].date)
            /\ procs' = [procs EXCEPT ![p] = Done(p, Ok(Len(dispatches) + 1, 0, NULL))]
       ELSE /\ procs' = [procs EXCEPT ![p] = Done(p, Fail("UNIQUE constraint failed"))]
            /\ UNCHANGED dispatches
    /\ UNCHANGED <<users, http, render, calc, dispatchTasks, tasks, now>>

\* link-task-to-dispatch
StartLinkTaskToDispatch(p, u, d, t) ==
    /\ Free(p)
    /\ LET dispatch == SelectDispatchByIdUser(dispatches, d, u)
           call == [Idle EXCEPT !.op = "link-task-to-dispatch", !.caller = u,
                                !.dispatchId = d, !.taskId = t]
       IN procs' = [procs EXCEPT ![p] =
                       IF dispatch = NULL
                       THEN [call EXCEPT !.pc = "done", !.res = Fail("Dispatch not found.")]
                       ELSE IF LinkLocked(dispatches, dispatch)
                       THEN [call EXCEPT !.pc = "done",
                                         !.res = Fail("Cannot modify a finalized dispatch.")]
                       ELSE [call EXCEPT !.pc = "lk_task"]]
    /\ UNCHANGED <<users, http, render, calc, dispatches, dispatchTasks, tasks, now>>

LkTask(p) ==
    /\ procs[p].pc = "lk_task"
    /\ procs' = [procs EXCEPT ![p] =
                    IF SelectActiveTask(tasks, procs[p].taskId, procs[p].caller) = NULL
                    THEN Done(p, Fail("Task not found."))
                    ELSE [@ EXCEPT !.pc = "lk_existing"]]
    /\ UNCHANGED <<users, http, render, calc, dispatches, dispatchTasks, tasks, now>>

LkExisting(p) ==
    /\ procs[p].pc = "lk_existing"
    /\ procs' = [procs EXCEPT ![p] =
                    IF LinkExists(dispatchTasks, procs[p].dispatchId, procs[p].taskId)
                    THEN Done(p, Ok(procs[p].dispatchId, 0, NULL))
                    ELSE [@ EXCEPT !.pc = "lk_insert"]]
    /\ UNCHANGED <<users, http, render, calc, dispatches, dispatchTasks, tasks, now>>

LkInsert(p) ==
    /\ procs[p].pc = "lk_insert"
    /\ IF LinkKeyFree(dispatchTasks, procs[p].dispatchId, procs[p].taskId)
       THEN /\ dispatchTasks' = InsertLink(dispatchTasks, procs[p].dispatchId, procs[p].taskId)
            /\ procs' = [procs EXCEPT ![p] = Done(p, Ok(procs[p].dispatchId, 0, NULL))]
       ELSE /\ procs' = [procs EXCEPT ![p] = Done(p, Fail("UNIQUE constraint failed"))]
            /\ UNCHANGED dispatchTasks
    /\ UNCHANGED <<users, http, render, calc, dispatches, tasks, now>>

\* complete-dispatch
StartCompleteDispatch(p, u, d) ==
    /\ Free(p)
    /\ LET dispatch == SelectDispatchByIdUser(dispatches, d, u)
           call == [Idle EXCEPT !.op = "complete-dispatch", !.caller = u, !.dispatchId = d]
       IN procs' = [procs EXCEPT ![p] =
                       IF dispatch = NULL
                       THEN [call EXCEPT !.pc = "done", !.res = Fail("Dispatch not found.")]
                       ELSE IF AlreadyFinalized(dispatches, dispatch)
                       THEN [call EXCEPT !.pc = "done",
                                         !.res = Fail("Dispatch is already finalized.")]
                       ELSE [call EXCEPT !.pc = "cd_linked",
                                         !.date = dispatches[dispatch].date]]
    /\ UNCHANGED <<users, http, render, calc, dispatches, dispatchTasks, tasks, now>>

CdLinked(p) ==
    /\ procs[p].pc = "cd_linked"
    /\ LET unfinishedTaskIds == UnfinishedTaskIds(dispatchTasks, tasks, procs[p].dispatchId)
       IN procs' = [procs EXCEPT ![p] =
                       [@ EXCEPT !.pc = "cd_finalize", !.todo = unfinishedTaskIds,
                                 !.count = SumCounts(
                                     [t \in unfinishedTaskIds |->
                                         CountLinks(dispatchTasks, procs[p].dispatchId, t)],
                                     unfinishedTaskIds)]]
    /\ UNCHANGED <<users, http, render, calc, dispatches, dispatchTasks, tasks, now>>

CdFinalize(p) ==
    /\ procs[p].pc = "cd_finalize"
    /\ dispatches' = SetFinalized(dispatches, procs[p].dispatchId)
    /\ procs' = [procs EXCEPT ![p] =
                    IF ~ShouldRollOver(procs[p].todo)
                    THEN Done(p, Ok(procs[p].dispatchId, procs[p].count, NULL))
                    ELSE [@ EXCEPT !.pc = "cd_next_select"]]
    /\ UNCHANGED <<users, http, render, calc, dispatchTasks, tasks, now>>

CdNextSelect(p) ==
    /\ procs[p].pc = "cd_next_select"
    /\ LET existing == SelectDispatchByUserDate(dispatches, procs[p].caller,
                                                nextDate(procs[p].date))
       IN procs' = [procs EXCEPT ![p] =
                       IF existing # NULL
                       THEN [@ EXCEPT !.pc = "cd_loop_select", !.next = existing]
                       ELSE [@ EXCEPT !.pc = "cd_next_insert"]]
    /\ UNCHANGED <<users, http, render, calc, dispatches, dispatchTasks, tasks, now>>

CdNextInsert(p) ==
    /\ procs[p].pc = "cd_next_insert"
    /\ Len(dispatches) < MaxDispatches
    /\ IF DispatchKeyFree(dispatches, procs[p].caller, nextDate(procs[p].date))
       THEN /\ dispatches' = InsertDispatch(dispatches, procs[p].caller,
                                            nextDate(procs[p].date))
            /\ procs' = [procs EXCEPT ![p] =
                            [@ EXCEPT !.pc = "cd_loop_select", !.next = Len(dispatches) + 1]]
       ELSE /\ procs' = [procs EXCEPT ![p] = Done(p, Fail("UNIQUE constraint failed"))]
            /\ UNCHANGED dispatches
    /\ UNCHANGED <<users, http, render, calc, dispatchTasks, tasks, now>>

\* after one task of the loop: the next task, or the tool's result
AfterTask(p) ==
    LET rest == procs[p].todo \ {Min(procs[p].todo)}
    IN IF rest = {}
       THEN [procs[p] EXCEPT !.pc = "done", !.todo = {},
                             !.res = Ok(procs[p].dispatchId, procs[p].count, procs[p].next)]
       ELSE [procs[p] EXCEPT !.pc = "cd_loop_select", !.todo = rest]

CdLoopSelect(p) ==
    /\ procs[p].pc = "cd_loop_select"
    /\ procs' = [procs EXCEPT ![p] =
                    IF LinkExists(dispatchTasks, procs[p].next, Min(procs[p].todo))
                    THEN AfterTask(p)
                    ELSE [@ EXCEPT !.pc = "cd_loop_insert"]]
    /\ UNCHANGED <<users, http, render, calc, dispatches, dispatchTasks, tasks, now>>

CdLoopInsert(p) ==
    /\ procs[p].pc = "cd_loop_insert"
    /\ IF LinkKeyFree(dispatchTasks, procs[p].next, Min(procs[p].todo))
       THEN /\ dispatchTasks' = InsertLink(dispatchTasks, procs[p].next, Min(procs[p].todo))
            /\ procs' = [procs EXCEPT ![p] = AfterTask(p)]
       ELSE /\ procs' = [procs EXCEPT ![p] = Done(p, Fail("UNIQUE constraint failed"))]
            /\ UNCHANGED dispatchTasks
    /\ UNCHANGED <<users, http, render, calc, dispatches, tasks, now>>

NextConc ==
    \/ \E u \in Actors, status \in CreateStatuses : CreateTaskCall(u, status)
    \/ \E u \in Actors, id \in TaskIds : CompleteTaskCall(u, id)
    \/ \E p \in Procs, u \in Actors : StartGetTodayDispatch(p, u)
    \/ \E p \in Procs : GocSelect(p)
    \/ \E p \in Procs : GocInsert(p)
    \/ \E p \in Procs, u \in Actors, d \in DispatchIds, t \in TaskIds :
          StartLinkTaskToDispatch(p, u, d, t)
    \/ \E p \in Procs : LkTask(p)
    \/ \E p \in Procs : LkExisting(p)
    \/ \E p \in Procs : LkInsert(p)
    \/ \E p \in Procs, u \in Actors, d \in DispatchIds : StartCompleteDispatch(p, u, d)
    \/ \E p \in Procs : CdLinked(p)
    \/ \E p \in Procs : CdFinalize(p)
    \/ \E p \in Procs : CdNextSelect(p)
    \/ \E p \in Procs : CdNextInsert(p)
    \/ \E p \in Procs : CdLoopSelect(p)
    \/ \E p \in Procs : CdLoopInsert(p)

SpecConc == Init /\ [][NextConc]_vars

\* update-task: the zod schema, then the select of the existing row
StartUpdateTask(p, u, id, args) ==
    /\ Free(p)
    /\ LET call == [Idle EXCEPT !.op = "update-task", !.caller = u, !.taskId = id]
       IN procs' = [procs EXCEPT ![p] =
                       IF ~UpdateTaskInputOk(args)
                       THEN [call EXCEPT !.pc = "done", !.res = Fail("Invalid arguments.")]
                       ELSE [call EXCEPT !.pc = "ut_select", !.args = args]]
    /\ UNCHANGED <<users, http, render, calc, dispatches, dispatchTasks, tasks, now>>

\* the handler has returned: its arguments and the row it read are gone
UtDone(p, res) ==
    [Idle EXCEPT !.pc = "done", !.op = "update-task", !.caller = procs[p].caller,
                 !.taskId = procs[p].taskId, !.res = res]

UtSelect(p) ==
    /\ procs[p].pc = "ut_select"
    /\ procs' = [procs EXCEPT ![p] =
                    IF SelectActiveTask(tasks, procs[p].taskId, procs[p].caller) = NULL
                    THEN UtDone(p, Fail("Task not found."))
                    ELSE [@ EXCEPT !.pc = "ut_update",
                                   !.existing = tasks[procs[p].taskId]]]
    /\ UNCHANGED <<users, http, render, calc, dispatches, dispatchTasks, tasks, now>>

\* the checks run on the row that was read; the update statement sets the
\* given columns of the row as it is now
UtUpdate(p) ==
    /\ procs[p].pc = "ut_update"
    /\ LET plan == UpdateTaskPlan(procs[p].existing, procs[p].args)
           id == procs[p].taskId
       IN IF plan.err # ""
          THEN /\ procs' = [procs EXCEPT ![p] = UtDone(p, Fail(plan.err))]
               /\ UNCHANGED tasks
          ELSE /\ tasks' = [tasks EXCEPT ![id] = UpdateTaskWrite(tasks[id], procs[p].args, plan)]
               /\ procs' = [procs EXCEPT ![p] = UtDone(p, Ok(id, 0, NULL))]
    /\ UNCHANGED <<users, http, render, calc, dispatches, dispatchTasks, now>>

\* requests that touch the recurrence type and rule only
RecurrenceArgs ==
    [status : {Undefined}, dueDate : {Undefined},
     recurrenceType : {Undefined, "monthly", "custom"},
     recurrenceBehavior : {Undefined},
     recurrenceRule : {NoRule, RuleObject(2, "month")}]

NextConcTasks ==
    \/ \E u \in Actors, args \in RecurrenceArgs : CreateTaskRequest(u, args)
    \/ \E p \in Procs, u \in Actors, id \in TaskIds, args \in RecurrenceArgs :
          StartUpdateTask(p, u, id, args)
    \/ \E p \in Procs : UtSelect(p)
    \/ \E p \in Procs : UtUpdate(p)

SpecConcTasks == Init /\ [][NextConcTasks]_vars

\* ------------------------------------------------------ renderer calls
\* longest template of the exhaustive family, in tokens
MaxLen == 4

\* a Saturday, a Monday, a date with one-digit month and day, and a date of
\* the first century
ReferenceDates == {<<2026, 2, 21>>, <<2026, 2, 23>>, <<2024, 3, 5>>, <<50, 1, 1>>}

\* what split("=") makes of one part of a condition
ConditionParts ==
    {<<"day", "sat">>, <<" Day ", " SAT ">>, <<"day", "saturday">>, <<"day", "6">>,
     <<"day", "mon">>, <<"month", "feb">>, <<"month", "february">>, <<"month", "2">>,
     <<"month", "02">>, <<"month", "3">>, <<"dom", "21">>, <<"dom", "5">>, <<"dom", "05">>,
     <<"year", "2026">>, <<"year", "50">>, <<"date", "2026-02-21">>, <<"foo", "bar">>,
     <<"day">>, <<"">>, <<" ">>, <<"", "sat">>, <<"day", "sat", "x">>}

Conditions ==
    {<<a>> : a \in ConditionParts} \cup {<<a, b>> : a, b \in ConditionParts}

Bodies == {<<Text("b")>>, <<DateToken(<<"YYYY", "-", "MM", "-", "DD">>)>>,
           <<Text("b"), DateToken(<<"ddd", " ", "MMM", " ", "D", ", ", "YY">>)>>,
           <<DateToken(<<" ">>)>>}

\* templates holding one block that is not nested
SingleBlockTemplates ==
    {<<Text("a"), If(c)>> \o body \o <<EndIf>> \o post :
        c \in Conditions, body \in Bodies, post \in {<<>>, <<Text("c")>>}}

\* a condition that holds on 2026-02-21 and one that does not
Holds == <<<<"day", "sat">>>>

Fails == <<<<"day", "mon">>>>

Alphabet == {Text("a"), If(Holds), If(Fails), EndIf}

RECURSIVE TemplatesOfLength(_)
TemplatesOfLength(n) ==
    IF n = 0 THEN {<<>>}
    ELSE {Append(t, a) : t \in TemplatesOfLength(n - 1), a \in Alphabet}

ShortTemplates == UNION {TemplatesOfLength(n) : n \in 0..MaxLen}

\* n blocks, one inside the other, around one piece of text
RECURSIVE Nested(_)
Nested(n) == IF n = 0 THEN <<Text("a")>> ELSE <<If(Holds)>> \o Nested(n - 1) \o <<EndIf>>

DeepTemplates == {Nested(n) : n \in {MaxPasses - 1, MaxPasses, MaxPasses + 1}}

StartRender(fn, input, referenceIso) ==
    [NoRender EXCEPT !.pc = "start", !.fn = fn, !.input = input,
                     !.referenceIso = referenceIso]

RenderInputs ==
    {StartRender("render", t, d) : t \in SingleBlockTemplates, d \in ReferenceDates}
    \cup {StartRender("render", t, <<2026, 2, 21>>) : t \in ShortTemplates \cup DeepTemplates}
    \cup {StartRender("blocks", t, <<2026, 2, 21>>) : t \in ShortTemplates \cup DeepTemplates}

InitRender ==
    /\ dispatches = <<>>
    /\ dispatchTasks = <<>>
    /\ tasks = <<>>
    /\ now \in StartDays
    /\ procs = [p \in Procs |-> Idle]
    /\ calc = NoCalc
    /\ users = NoPreferences
    /\ http = NoExchange
    /\ render \in RenderInputs

RenderTemplateCall ==
    /\ render.pc = "start" /\ render.fn = "render"
    /\ render' = [render EXCEPT !.pc = "done",
                                !.result = renderTemplate(render.input, render.referenceIso)]
    /\ UNCHANGED <<users, http, calc, dispatches, dispatchTasks, tasks, now, procs>>

\* let output = input
BlocksEnter ==
    /\ render.pc = "start" /\ render.fn = "blocks"
    /\ render' = [render EXCEPT !.pc = "loop", !.output = render.input, !.i = 0]
    /\ UNCHANGED <<users, http, calc, dispatches, dispatchTasks, tasks, now, procs>>

\* one pass of the for loop: break when the replacement changed nothing
BlocksPass ==
    /\ render.pc = "loop" /\ render.i < PassCeiling
    /\ LET next == ReplaceBlocks(render.output, 1, parseIsoDateParts(render.referenceIso))
       IN render' = IF next = render.output
                    THEN [render EXCEPT !.pc = "done", !.passes = @ + 1,
                                        !.result = render.output]
                    ELSE [render EXCEPT !.output = next, !.i = @ + 1, !.passes = @ + 1]
    /\ UNCHANGED <<users, http, calc, dispatches, dispatchTasks, tasks, now, procs>>

\* the loop condition fails: return output
BlocksExhausted ==
    /\ render.pc = "loop" /\ render.i >= PassCeiling
    /\ render' = [render EXCEPT !.pc = "done", !.result = render.output]
    /\ UNCHANGED <<users, http, calc, dispatches, dispatchTasks, tasks, now, procs>>

NextRender ==
    \/ RenderTemplateCall
    \/ BlocksEnter
    \/ BlocksPass
    \/ BlocksExhausted

SpecRender == InitRender /\ [][NextRender]_vars

\* ------------------------------------------------------ preference calls
RECURSIVE Repeat(_, _)
Repeat(entry, n) == IF n = 0 THEN <<>> ELSE Append(Repeat(entry, n - 1), entry)

\* a legacy weekly template, a custom one with rule and behaviour, and one
\* whose name needs trimming and whose type and description are not usable
LegacyTask ==
    TaskEntry(JString("t1"), JString("Legacy"), JString("Legacy title"), JString(""),
              JString("weekly"), JUndefined, NullRule)

CustomTask ==
    TaskEntry(JString("t2"), JString("Biweekly planning"), JString("Planning"), JString(""),
              JString("custom"), JString("duplicate_on_schedule"), RuleObject(2, "week"))

LooseTask ==
    TaskEntry(JString("t3"), JString(" x "), JString("Review"), JNumber,
              JString("yearly"), JString("after_completion"), NullRule)

\* entries that are malformed: an id that is no string, a blank title, a
\* custom type without a rule, and an entry that is no object
MalformedTasks ==
    {[LegacyTask EXCEPT !.id = JNumber], [LegacyTask EXCEPT !.title = JString(" ")],
     [CustomTask EXCEPT !.recurrenceRule = NullRule], [LegacyTask EXCEPT !.type = "string"]}

Note1 == TextEntry(JString("n1"), JString("Standup"), JString("## Standup"))

MalformedTexts == {[Note1 EXCEPT !.name = JUndefined], [Note1 EXCEPT !.content = JNumber]}

TaskArrays ==
    {Array(Repeat(LegacyTask, n)) :
        n \in {0, 1, MAX_PRESETS_PER_KIND, MAX_PRESETS_PER_KIND + 1}}
    \cup {Array(<<CustomTask>>), Array(<<LooseTask, CustomTask>>), NotArray}
    \cup {Array(<<bad>>) : bad \in MalformedTasks}
    \cup {Array(Append(Repeat(LegacyTask, MAX_PRESETS_PER_KIND - 1), bad)) :
             bad \in MalformedTasks}

NoteArrays ==
    {Array(Repeat(Note1, n)) : n \in {0, 1, MAX_PRESETS_PER_KIND, MAX_PRESETS_PER_KIND + 1}}
    \cup {Array(<<bad>>) : bad \in MalformedTexts}

DispatchArrays ==
    {Array(Repeat(Note1, n)) : n \in {0, 1, MAX_PRESETS_PER_KIND, MAX_PRESETS_PER_KIND + 1}}
    \cup {NotArray}

\* arrays within the limit
Few == {Array(Repeat(Note1, n)) : n \in {0, 1, MAX_PRESETS_PER_KIND}}

\* the acceptable payloads side by side, then every array of each kind next to
\* acceptable arrays of the other kinds
Payloads ==
    {Payload(t, n, d) :
        t \in {Array(<<>>), Array(<<CustomTask>>),
               Array(Repeat(LegacyTask, MAX_PRESETS_PER_KIND))},
        n \in Few, d \in Few}
    \cup {Payload(t, Array(<<>>), Array(<<Note1>>)) : t \in TaskArrays}
    \cup {Payload(Array(<<>>), n, Array(Repeat(Note1, MAX_PRESETS_PER_KIND))) :
             n \in NoteArrays}
    \cup {Payload(Array(Repeat(LegacyTask, MAX_PRESETS_PER_KIND)), Array(<<>>), d) :
             d \in DispatchArrays}
    \cup {UndefinedPayload, NullPayload}

\* every payload on its own, and a few next to the other preference fields
MeBodies ==
    {[other |-> "absent", templatePresets |-> payload] : payload \in Payloads}
    \cup {[other |-> other, templatePresets |-> payload] :
             other \in {"valid", "invalid"},
             payload \in {UndefinedPayload,
                          Payload(Array(<<CustomTask>>), Array(<<Note1>>), Array(<<>>)),
                          Payload(Array(<<>>), Array(<<>>), NotArray)}}

PutMeCall(body) ==
    LET r == PutMe(users, body)
    IN /\ users' = r.row
       /\ http' = r.res
       /\ UNCHANGED <<render, calc, dispatches, dispatchTasks, tasks, now, procs>>

GetMeCall ==
    /\ http' = GetMe(users)
    /\ UNCHANGED <<users, render, calc, dispatches, dispatchTasks, tasks, now, procs>>

NextMe ==
    \/ \E body \in MeBodies : PutMeCall(body)
    \/ GetMeCall

SpecMe == Init /\ [][NextMe]_vars

\* ------------------------------------------------- reference definitions
\* the calendar, stated from the Gregorian rules
IsLeapYear(y) == (y % 4 = 0 /\ y % 100 # 0) \/ y % 400 = 0

LastDayOfMonth(y, m) ==
    IF m = 2 THEN (IF IsLeapYear(y) THEN 29 ELSE 28)
    ELSE IF m \in {4, 6, 9, 11} THEN 30 ELSE 31

DayAfter(date) ==
    IF date[3] < LastDayOfMonth(date[1], date[2]) THEN <<date[1], date[2], date[3] + 1>>
    ELSE IF date[2] < 12 THEN <<date[1], date[2] + 1, 1>>
    ELSE <<date[1] + 1, 1, 1>>

Exists(d) == d \in 1..Len(dispatches)

Owned(u, d) == Exists(d) /\ dispatches[d].userId = u

OwnedOpen(u, d) == Owned(u, d) /\ ~dispatches[d].finalized

OwnedFinalized(u, d) == Owned(u, d) /\ dispatches[d].finalized

Linked(d, t) == <<d, t>> \in DOMAIN dispatchTasks /\ dispatchTasks[<<d, t>>] > 0

ActiveTask(u, t) == t \in 1..Len(tasks) /\ tasks[t].userId = u /\ ~tasks[t].deleted

\* tasks linked to d that are neither soft-deleted nor done
PendingTasks(d) ==
    {t \in 1..Len(tasks) : Linked(d, t) /\ ~tasks[t].deleted /\ tasks[t].status # "done"}

DoCompleteDispatch(u, d) == CompleteDispatch(dispatches, dispatchTasks, tasks, u, d)

DoLink(u, d, t) == LinkTaskToDispatch(dispatches, dispatchTasks, tasks, u, d, t)

DoUnlink(u, d, t) == UnlinkTaskFromDispatch(dispatches, dispatchTasks, u, d, t)

DoUpdate(u, s, d) == UpdateDispatchSummary(dispatches, dispatchTasks, u, s, d)

NoChange(r) == r.ds = dispatches /\ r.dt = dispatchTasks

\* ------------------------------------------------------------------ claims

\* C1: a successful complete-dispatch of an open dispatch D of the caller
\* leaves D finalized, links every task of D that is neither soft-deleted nor
\* done to the caller's dispatch of the day after D.date, gives no done task a
\* new link, and returns rolledOver = the number of those unfinished tasks.
C1_RolloverContract ==
    \A u \in Users, d \in DispatchIds :
        OwnedOpen(u, d) =>
            LET r == DoCompleteDispatch(u, d)
            IN r.res.ok =>
                /\ r.ds[d].finalized
                /\ \A t \in PendingTasks(d) :
                      \E n \in 1..Len(r.ds) :
                          /\ r.ds[n].userId = u
                          /\ r.ds[n].date = DayAfter(dispatches[d].date)
                          /\ CountLinks(r.dt, n, t) > 0
                /\ \A t \in 1..Len(tasks) :
                      tasks[t].status = "done" =>
                          \A n \in 1..Len(r.ds) :
                              CountLinks(r.dt, n, t) = CountLinks(dispatchTasks, n, t)
                /\ r.res.rolledOver = Cardinality(PendingTasks(d))

\* a finalized dispatch whose unfinished task sits in the next day's dispatch
\* too, while its done task stayed behind
C1_Witness ==
    \E d, n \in 1..Len(dispatches), t1, t2 \in 1..Len(tasks) :
        /\ dispatches[d].finalized
        /\ dispatches[n].userId = dispatches[d].userId
        /\ dispatches[n].date = DayAfter(dispatches[d].date)
        /\ tasks[t1].status = "in_progress" /\ ~tasks[t1].deleted
        /\ Linked(d, t1) /\ Linked(n, t1)
        /\ tasks[t2].status = "done"
        /\ Linked(d, t2) /\ ~Linked(n, t2)

\* C2: of two complete-dispatch calls on the same dispatch, interleaved in any
\* way, at most one succeeds.
C2_AtMostOneCompletes ==
    \A p, q \in Procs :
        ( /\ p # q
          /\ procs[p].pc = "done" /\ procs[q].pc = "done"
          /\ procs[p].op = "complete-dispatch" /\ procs[q].op = "complete-dispatch"
          /\ procs[p].caller = procs[q].caller
          /\ procs[p].dispatchId = procs[q].dispatchId )
        => ~(procs[p].res.ok /\ procs[q].res.ok)

\* C3: two get-or-create calls for the same (userId, date), interleaved in any
\* way, both complete with the same dispatch, and one row exists for the pair.
C3_GetOrCreateConverges ==
    \A p, q \in Procs :
        ( /\ p # q
          /\ procs[p].pc = "done" /\ procs[q].pc = "done"
          /\ procs[p].op = "get-today-dispatch" /\ procs[q].op = "get-today-dispatch"
          /\ procs[p].caller = procs[q].caller
          /\ procs[p].date = procs[q].date )
        => /\ procs[p].res.ok /\ procs[q].res.ok
           /\ procs[p].res.out = procs[q].res.out
           /\ Cardinality({i \in 1..Len(dispatches) :
                  /\ dispatches[i].userId = procs[p].caller
                  /\ dispatches[i].date = procs[p].date}) = 1

\* C4: complete-dispatch on a finalized dispatch fails with "Dispatch is
\* already finalized." and changes no dispatch row and no link.
C4_CompleteFinalizedFails ==
    \A u \in Users, d \in DispatchIds :
        OwnedFinalized(u, d) =>
            LET r == DoCompleteDispatch(u, d)
            IN /\ ~r.res.ok
               /\ r.res.err = "Dispatch is already finalized."
               /\ NoChange(r)

\* a finalized dispatch that still holds an unfinished task which the next
\* day's dispatch does not hold: a second completion would have work to do
C4_Witness ==
    \E d, n \in 1..Len(dispatches), t \in 1..Len(tasks) :
        /\ dispatches[d].finalized
        /\ t \in PendingTasks(d)
        /\ dispatches[n].userId = dispatches[d].userId
        /\ dispatches[n].date = DayAfter(dispatches[d].date)
        /\ ~dispatches[n].finalized
        /\ ~Linked(n, t)

\* C5: once a dispatch is finalized, no step changes its summary or its links.
C5_FinalizedFrozen ==
    [][\A d \in 1..Len(dispatches) :
          dispatches[d].finalized =>
              /\ dispatches'[d].summary = dispatches[d].summary
              /\ \A t \in TaskIds :
                    CountLinks(dispatchTasks', d, t) = CountLinks(dispatchTasks, d, t)]_vars

\* C6: the dispatch complete-dispatch rolls into is the caller's dispatch dated
\* exactly one calendar day after the completed dispatch's stored date, and is
\* not the completed dispatch.
C6_RollsToDayAfter ==
    \A u \in Users, d \in DispatchIds :
        OwnedOpen(u, d) =>
            LET r == DoCompleteDispatch(u, d)
                n == r.res.nextDispatchId
            IN (r.res.ok /\ n # NULL) =>
                /\ n # d
                /\ n \in 1..Len(r.ds)
                /\ r.ds[n].userId = u
                /\ r.ds[n].date = DayAfter(dispatches[d].date)
                /\ \A t \in PendingTasks(d) : CountLinks(r.dt, n, t) > 0

\* the leap day's dispatch rolled into March 1st, and the last day of a
\* non-leap February rolled likewise, is one of the cases reached
C6_Witness ==
    \E d, n \in 1..Len(dispatches), t \in 1..Len(tasks) :
        /\ dispatches[d].finalized
        /\ dispatches[d].date = <<2024, 2, 29>>
        /\ dispatches[n].date = <<2024, 3, 1>>
        /\ dispatches[n].userId = dispatches[d].userId
        /\ Linked(d, t) /\ Linked(n, t)

\* C7: with no unfinished linked task complete-dispatch returns
\* nextDispatchId null and rolledOver 0, inserts no dispatch and no link; and
\* nextDispatchId is non-null exactly when rolledOver > 0.
C7_NoEmptyRollover ==
    \A u \in Users, d \in DispatchIds :
        OwnedOpen(u, d) =>
            LET r == DoCompleteDispatch(u, d)
            IN /\ PendingTasks(d) = {} =>
                    /\ r.res.ok
                    /\ r.res.nextDispatchId = NULL
                    /\ r.res.rolledOver = 0
                    /\ Len(r.ds) = Len(dispatches)
                    /\ r.dt = dispatchTasks
               /\ r.res.ok => ((r.res.nextDispatchId # NULL) <=> (r.res.rolledOver > 0))

\* a finalized dispatch holding a done task and a soft-deleted one, with no
\* dispatch of its owner on the following day
C7_Witness ==
    \E d \in 1..Len(dispatches), t1, t2 \in 1..Len(tasks) :
        /\ dispatches[d].finalized
        /\ Linked(d, t1) /\ tasks[t1].status = "done" /\ ~tasks[t1].deleted
        /\ Linked(d, t2) /\ tasks[t2].deleted /\ tasks[t2].status # "done"
        /\ \A n \in 1..Len(dispatches) :
              ~(dispatches[n].userId = dispatches[d].userId
                /\ dispatches[n].date = DayAfter(dispatches[d].date))

\* C8: there is at most one dispatch row per (userId, date), and two
\* successive get-or-create calls for today return the same row of that pair.
C8_OneDispatchPerDay ==
    /\ \A i, j \in 1..Len(dispatches) :
          (dispatches[i].userId = dispatches[j].userId
           /\ dispatches[i].date = dispatches[j].date) => i = j
    /\ \A u \in Users :
          LET first == getOrCreateDispatch(dispatches, u, todayISODate)
              second == getOrCreateDispatch(first.ds, u, todayISODate)
          IN /\ ~first.threw /\ ~second.threw
             /\ second.id = first.id
             /\ second.ds = first.ds
             /\ first.ds[first.id].userId = u
             /\ first.ds[first.id].date = todayISODate

\* today's dispatches of two users side by side, one of them completed
C8_Witness ==
    \E i, j \in 1..Len(dispatches) :
        /\ dispatches[i].userId # dispatches[j].userId
        /\ dispatches[i].date = todayISODate
        /\ dispatches[j].date = todayISODate
        /\ dispatches[i].finalized

\* C9: there is at most one link row per (dispatchId, taskId); linking a
\* linked pair succeeds and changes nothing, unlinking a pair that is not
\* linked succeeds and changes nothing, and linking twice leaves one row.
C9_LinkIdempotent ==
    /\ \A row \in DOMAIN dispatchTasks : dispatchTasks[row] = 1
    /\ \A u \in Users, d \in DispatchIds, t \in TaskIds :
          OwnedOpen(u, d) =>
              /\ (ActiveTask(u, t) /\ Linked(d, t)) =>
                    (DoLink(u, d, t).res.ok /\ NoChange(DoLink(u, d, t)))
              /\ ActiveTask(u, t) =>
                    LET once == DoLink(u, d, t)
                        twice == LinkTaskToDispatch(once.ds, once.dt, tasks, u, d, t)
                    IN /\ once.res.ok /\ twice.res.ok
                       /\ CountLinks(twice.dt, d, t) = 1
                       /\ twice.dt = once.dt
              /\ ~Linked(d, t) =>
                    (DoUnlink(u, d, t).res.ok /\ NoChange(DoUnlink(u, d, t)))

\* an open dispatch with one task linked and another task of its owner not
\* linked
C9_Witness ==
    \E d \in 1..Len(dispatches), t1, t2 \in 1..Len(tasks) :
        /\ ~dispatches[d].finalized
        /\ ActiveTask(dispatches[d].userId, t1) /\ Linked(d, t1)
        /\ ActiveTask(dispatches[d].userId, t2) /\ ~Linked(d, t2)

\* C10: on a finalized dispatch update-dispatch-summary, link-task-to-dispatch
\* and unlink-task-from-dispatch each fail and change neither summary nor
\* links; on an open dispatch of the caller they succeed.
C10_EditsOnlyWhileOpen ==
    \A u \in Users, d \in DispatchIds :
        /\ OwnedFinalized(u, d) =>
              /\ \A s \in Summaries :
                    /\ ~DoUpdate(u, s, d).res.ok
                    /\ DoUpdate(u, s, d).res.err =
                           "Cannot update summary on a finalized dispatch."
                    /\ NoChange(DoUpdate(u, s, d))
                    /\ dispatches[d].date = todayISODate =>
                          (~DoUpdate(u, s, NULL).res.ok /\ NoChange(DoUpdate(u, s, NULL)))
              /\ \A t \in TaskIds :
                    /\ ~DoLink(u, d, t).res.ok
                    /\ DoLink(u, d, t).res.err = "Cannot modify a finalized dispatch."
                    /\ NoChange(DoLink(u, d, t))
                    /\ ~DoUnlink(u, d, t).res.ok
                    /\ DoUnlink(u, d, t).res.err = "Cannot modify a finalized dispatch."
                    /\ NoChange(DoUnlink(u, d, t))
        /\ OwnedOpen(u, d) =>
              /\ \A s \in Summaries :
                    /\ DoUpdate(u, s, d).res.ok
                    /\ DoUpdate(u, s, d).ds[d].summary = s
              /\ \A t \in TaskIds :
                    /\ ActiveTask(u, t) =>
                          (DoLink(u, d, t).res.ok /\ CountLinks(DoLink(u, d, t).dt, d, t) = 1)
                    /\ DoUnlink(u, d, t).res.ok
                    /\ CountLinks(DoUnlink(u, d, t).dt, d, t) = 0

\* a finalized dispatch with a summary and a linked task, next to an open
\* dispatch of the same user
C10_Witness ==
    \E d, o \in 1..Len(dispatches), t \in 1..Len(tasks) :
        /\ dispatches[d].finalized
        /\ dispatches[d].summary \in Summaries
        /\ Linked(d, t) /\ ActiveTask(dispatches[d].userId, t)
        /\ dispatches[o].userId = dispatches[d].userId
        /\ ~dispatches[o].finalized

\* C11: on an open dispatch of the caller, link-task-to-dispatch and
\* unlink-task-from-dispatch both fail and change no link when the task does
\* not exist, belongs to another user, or is soft-deleted.
C11_TaskMustBeUsable ==
    \A u \in Users, d \in DispatchIds, t \in TaskIds :
        (OwnedOpen(u, d) /\ ~ActiveTask(u, t)) =>
            /\ ~DoLink(u, d, t).res.ok
            /\ NoChange(DoLink(u, d, t))
            /\ ~DoUnlink(u, d, t).res.ok
            /\ NoChange(DoUnlink(u, d, t))

\* C12: no step changes a dispatch's finalized flag from true to false.
C12_FinalizedOneWay ==
    [][\A d \in 1..Len(dispatches) :
          dispatches[d].finalized => dispatches'[d].finalized]_vars

\* today's dispatch is finalized and the dispatch its completion rolled into
\* has been edited since: tools have run after the finalization
C12_Witness ==
    \E d, n \in 1..Len(dispatches) :
        /\ dispatches[d].finalized
        /\ dispatches[d].date = todayISODate
        /\ dispatches[n].userId = dispatches[d].userId
        /\ dispatches[n].date = DayAfter(dispatches[d].date)
        /\ dispatches[n].summary \in Summaries

\* the type a task has after a request that names recurrenceType or leaves it
ResultingType(current, requested) == IF requested = Undefined THEN current ELSE requested

SuppliesRule(request) == request.recurrenceRule \notin {NoRule, NullRule}

ClearDueDate == [OnlyStatus(Undefined) EXCEPT !.dueDate = Null]

ClearRule == [OnlyStatus(Undefined) EXCEPT !.recurrenceRule = NullRule]

\* C13: every stored task has a non-null recurrenceRule iff its recurrenceType
\* is custom, and create-task, update-task and PUT reject a request that
\* supplies a non-null rule while the resulting type is not custom.
C13_RuleIffCustom ==
    /\ \A t \in 1..Len(tasks) :
          (tasks[t].recurrenceRule # NullRule) <=> (tasks[t].recurrenceType = "custom")
    /\ \A u \in Users, args \in TaskArgs :
          (SuppliesRule(args) /\ ResultingType("none", args.recurrenceType) # "custom")
              => ~CreateTask(tasks, u, args).res.ok
    /\ \A u \in Users, id \in TaskIds :
          ActiveTask(u, id) =>
              /\ \A args \in TaskArgs :
                    ( /\ SuppliesRule(args)
                      /\ ResultingType(tasks[id].recurrenceType, args.recurrenceType) # "custom" )
                        => ~UpdateTask(tasks, u, id, args).res.ok
              /\ \A body \in PutBodies :
                    ( /\ SuppliesRule(body)
                      /\ ResultingType(tasks[id].recurrenceType, body.recurrenceType) # "custom" )
                        => ~PutTask(tasks, u, id, body).res.ok

\* a custom task holding the serialized rule next to a monthly task
C13_Witness ==
    \E t1, t2 \in 1..Len(tasks) :
        /\ tasks[t1].recurrenceType = "custom"
        /\ tasks[t1].recurrenceRule = RuleString(2, "month")
        /\ tasks[t2].recurrenceType = "monthly"
        /\ tasks[t2].recurrenceBehavior = "duplicate_on_schedule"

\* C14: every stored task whose recurrenceType is none has recurrenceBehavior
\* after_completion.
C14_NoneIsAfterCompletion ==
    \A t \in 1..Len(tasks) :
        tasks[t].recurrenceType = "none" => tasks[t].recurrenceBehavior = "after_completion"

\* C15: every stored task with recurrenceType other than none and
\* recurrenceBehavior duplicate_on_schedule has a non-null dueDate.
C15_DuplicateHasDueDate ==
    \A t \in 1..Len(tasks) :
        (tasks[t].recurrenceType # "none"
         /\ tasks[t].recurrenceBehavior = "duplicate_on_schedule")
            => tasks[t].dueDate # Null

\* C16: a create-task, update-task or PUT call that is rejected leaves the
\* tasks table as it was.
C16_RejectedLeavesTable ==
    /\ \A u \in Users, args \in TaskArgs :
          ~CreateTask(tasks, u, args).res.ok => CreateTask(tasks, u, args).tk = tasks
    /\ \A u \in Users, id \in TaskIds :
          /\ \A args \in TaskArgs :
                ~UpdateTask(tasks, u, id, args).res.ok
                    => UpdateTask(tasks, u, id, args).tk = tasks
          /\ \A body \in PutBodies :
                ~PutTask(tasks, u, id, body).res.ok
                    => PutTask(tasks, u, id, body).tk = tasks

\* a custom duplicate_on_schedule task on which clearing the due date, clearing
\* the rule and a malformed rule are each refused with their own error
C16_Witness ==
    \E u \in Users, t \in 1..Len(tasks) :
        /\ ActiveTask(u, t)
        /\ tasks[t].recurrenceType = "custom"
        /\ tasks[t].recurrenceBehavior = "duplicate_on_schedule"
        /\ UpdateTask(tasks, u, t, ClearDueDate).res.err =
               "dueDate is required when recurrenceBehavior is duplicate_on_schedule."
        /\ UpdateTask(tasks, u, t, ClearRule).res.err =
               "recurrenceRule is required when recurrenceType is custom."
        /\ PutTask(tasks, u, t,
                   [status |-> Undefined, dueDate |-> Undefined,
                    recurrenceType |-> Undefined,
                    recurrenceRule |-> RuleObject(0, "day")]).res.err =
               "recurrenceRule must include interval (1-365) and unit (day|week|month)"

\* ---- calendar reference for the recurrence claims
ValidDate(d) ==
    /\ d[1] \in 0..9999 /\ d[2] \in 1..12
    /\ d[3] >= 1 /\ d[3] <= LastDayOfMonth(d[1], d[2])

DateLess(a, b) ==
    \/ a[1] < b[1]
    \/ a[1] = b[1] /\ a[2] < b[2]
    \/ a[1] = b[1] /\ a[2] = b[2] /\ a[3] < b[3]

DateLeq(a, b) == a = b \/ DateLess(a, b)

\* the date n months after d's month, on d's day or the month's last day
MonthsLater(d, n) ==
    LET index == d[1] * 12 + (d[2] - 1) + n
        y == index \div 12
        m == (index % 12) + 1
        last == LastDayOfMonth(y, m)
    IN <<y, m, IF d[3] < last THEN d[3] ELSE last>>

CalcRule == getResolvedTaskRecurrenceRule(calc.recurrenceType, calc.recurrenceRule)

Returned(fn) == calc.pc = "done" /\ calc.fn = fn

\* the anchor followed by its first k successors under the rule
RECURSIVE ChainFrom(_, _)
ChainFrom(cursor, k) ==
    IF k = 0 THEN <<cursor>>
    ELSE <<cursor>> \o ChainFrom(getNextTaskRecurrenceDate(cursor, calc.recurrenceType,
                                                           calc.recurrenceRule), k - 1)

\* the first occurrence on or after the target is the anchor or one of its
\* first n successors. Day and week rules advance by a fixed number of days;
\* month rules are followed step by step (their targets lie within MaxChain
\* steps of the anchor)
ReachedWithin(n) ==
    LET a == parseIsoDate(calc.anchor).t
        t == parseIsoDate(calc.target).t
        step == IF CalcRule.unit = "day" THEN CalcRule.interval ELSE CalcRule.interval * 7
        need == IF t <= a THEN 0 ELSE ((t - a) + step - 1) \div step
        chain == ChainFrom(calc.anchor, MaxChain)
    IN IF CalcRule.unit = "month"
       THEN \E k \in 0..(IF n < MaxChain THEN n ELSE MaxChain) :
               ValidDate(chain[k + 1]) /\ DateLeq(calc.target, chain[k + 1])
       ELSE need <= n /\ a + need * step <= MakeDay(9999, 11, 31)

\* C17: for a valid anchor and a month-unit rule with interval n,
\* getNextTaskRecurrenceDate returns the date n months after the anchor's
\* month on day min(anchor day, last day of that month).
C17_MonthStepClamps ==
    ( /\ Returned("next")
      /\ ValidDate(calc.anchor)
      /\ CalcRule # NullRule /\ CalcRule.unit = "month" )
        => calc.result = MonthsLater(calc.anchor, CalcRule.interval)

\* C18: a date r returned by getNextTaskRecurrenceOnOrAfter is on or after the
\* target, is the anchor or one of its successors under
\* getNextTaskRecurrenceDate, and every date before it in that chain is
\* strictly before the target.
C18_FirstOnOrAfter ==
    ( /\ Returned("onOrAfter")
      /\ calc.result # NullDate
      /\ calc.i <= MaxChain )
        => /\ DateLeq(calc.target, calc.result)
           /\ \E k \in 0..MaxChain :
                 LET chain == ChainFrom(calc.anchor, k)
                 IN /\ chain[k + 1] = calc.result
                    /\ \A j \in 1..k :
                          ValidDate(chain[j]) /\ DateLess(chain[j], calc.target)

\* the third date of a monthly chain that was clamped on its way
C18_Witness ==
    /\ Returned("onOrAfter")
    /\ calc.anchor = <<2024, 1, 31>> /\ calc.recurrenceType = "monthly"
    /\ calc.target = <<2024, 3, 16>>
    /\ calc.result = <<2024, 3, 29>>
    /\ calc.i = 2

C20_TargetNotAfterAnchor ==
    ( /\ Returned("onOrAfter")
      /\ ValidDate(calc.anchor) /\ ValidDate(calc.target)
      /\ DateLeq(calc.target, calc.anchor) )
        => calc.result = calc.anchor

\* a custom task with an unparseable rule asked for a target before its anchor
C20_Witness ==
    /\ Returned("onOrAfter")
    /\ calc.recurrenceType = "custom" /\ CalcRule = NullRule
    /\ calc.recurrenceRule # NullRule
    /\ ValidDate(calc.anchor) /\ DateLess(calc.target, calc.anchor)
    /\ calc.result = calc.anchor

\* an object whose interval is an integer in 1..365 and whose unit is one of
\* the three
ValidRule(v) ==
    /\ v.kind = "object" /\ v.intervalIs = "integer"
    /\ v.interval >= 1 /\ v.interval <= 365
    /\ v.unit \in {"day", "week", "month"}

\* C21: for a valid rule parse(serialize(rule)) = rule; an input that is
\* neither a valid rule nor the stored text of one parses to null.
C21_RuleRoundTrip ==
    /\ (Returned("roundTrip") /\ ValidRule(calc.recurrenceRule))
          => calc.parsed = calc.recurrenceRule
    /\ ( /\ Returned("parse")
         /\ ~ValidRule(calc.recurrenceRule)
         /\ ~(calc.recurrenceRule.kind = "string"
              /\ ValidRule([calc.recurrenceRule EXCEPT !.kind = "object"])) )
          => calc.parsed = NullRule

\* the widest rule the range allows came back from its stored text
C21_Witness ==
    /\ Returned("roundTrip")
    /\ calc.recurrenceRule = RuleObject(365, "month")
    /\ calc.parsed = RuleObject(365, "month")

\* C27: when a link of a not-done task and a completion of the same dispatch
\* have both returned and the link succeeded, the dispatch is still open or
\* the task is also linked to the next day's dispatch.
C27_LinkSeesCompletion ==
    \A p, q \in Procs :
        ( /\ procs[p].pc = "done" /\ procs[p].op = "link-task-to-dispatch"
          /\ procs[p].res.ok
          /\ procs[q].pc = "done" /\ procs[q].op = "complete-dispatch"
          /\ procs[q].dispatchId = procs[p].dispatchId
          /\ procs[q].caller = procs[p].caller
          /\ ActiveTask(procs[p].caller, procs[p].taskId)
          /\ tasks[procs[p].taskId].status # "done" )
        => \/ ~dispatches[procs[p].dispatchId].finalized
           \/ \E n \in 1..Len(dispatches) :
                 /\ dispatches[n].userId = procs[p].caller
                 /\ dispatches[n].date = DayAfter(dispatches[procs[p].dispatchId].date)
                 /\ Linked(n, procs[p].taskId)

\* C29: complete-dispatch leaves every other dispatch row as it was, changes
\* only the finalized flag of the completed row, inserts at most the caller's
\* dispatch of the following day, removes no link, adds links only to that
\* following dispatch, and the step that finalizes changes no task.
C29_CompletionFrame ==
    /\ [](\A u \in Users, d \in DispatchIds :
            LET r == DoCompleteDispatch(u, d)
                IsNext(n) == /\ Exists(d) /\ n # d /\ n \in 1..Len(r.ds)
                             /\ r.ds[n].userId = u
                             /\ r.ds[n].date = DayAfter(dispatches[d].date)
            IN /\ Len(r.ds) \in {Len(dispatches), Len(dispatches) + 1}
               /\ \A i \in 1..Len(dispatches) :
                     /\ i # d => r.ds[i] = dispatches[i]
                     /\ i = d => [r.ds[i] EXCEPT !.finalized = FALSE]
                                   = [dispatches[i] EXCEPT !.finalized = FALSE]
               /\ Len(r.ds) > Len(dispatches) =>
                     /\ IsNext(Len(r.ds))
                     /\ ~r.ds[Len(r.ds)].finalized
                     /\ r.ds[Len(r.ds)].summary = NoSummary
               /\ \A n \in 1..Len(r.ds), t \in TaskIds :
                     /\ CountLinks(r.dt, n, t) >= CountLinks(dispatchTasks, n, t)
                     /\ CountLinks(r.dt, n, t) > CountLinks(dispatchTasks, n, t) =>
                           (IsNext(n) /\ t \in PendingTasks(d)))
    /\ [][(\E d \in 1..Len(dispatches) :
              ~dispatches[d].finalized /\ dispatches'[d].finalized) => tasks' = tasks]_vars

\* a completed dispatch whose task was rolled into a following dispatch that
\* already held a link of its own, which it still holds
C29_Witness ==
    \E d, n \in 1..Len(dispatches), t1, t2 \in 1..Len(tasks) :
        /\ dispatches[d].finalized /\ ~dispatches[n].finalized
        /\ dispatches[n].userId = dispatches[d].userId
        /\ dispatches[n].date = DayAfter(dispatches[d].date)
        /\ Linked(d, t1) /\ Linked(n, t1)
        /\ t2 # t1 /\ Linked(n, t2) /\ ~Linked(d, t2)

\* steps of a chain that are followed from each anchor
ChainSteps == 3

\* C30: for a valid rule and a valid anchor getNextTaskRecurrenceDate returns
\* a date strictly after the anchor, and along the chain of a month-unit rule
\* the day of the month never increases.
C30_StrictlyForward ==
    ( /\ Returned("next")
      /\ ValidDate(calc.anchor)
      /\ CalcRule # NullRule )
        => /\ ValidDate(calc.result)
           /\ DateLess(calc.anchor, calc.result)
           /\ CalcRule.unit = "month" =>
                 LET chain == ChainFrom(calc.anchor, ChainSteps)
                 IN \A j \in 1..ChainSteps :
                       ValidDate(chain[j]) =>
                           /\ ValidDate(chain[j + 1])
                           /\ DateLess(chain[j], chain[j + 1])
                           /\ chain[j + 1][3] <= chain[j][3]

\* C28: whatever way update-task calls on one task interleave, once they have
\* returned the stored task has a non-null recurrenceRule iff its
\* recurrenceType is custom.
C28_RuleIffCustomInterleaved ==
    (\A p \in Procs : Free(p)) =>
        \A t \in 1..Len(tasks) :
            (tasks[t].recurrenceRule # NullRule) <=> (tasks[t].recurrenceType = "custom")

\* ---- reference for the template claims
\* the weekday of a calendar date, 0 for Sunday
WeekdayOf(d) == (MakeDay(d[1], d[2] - 1, d[3]) + 4) % 7

\* a clause key=value with a recognised key and a value naming the date
ClauseMatches(part, d) ==
    /\ Len(part) = 2
    /\ LET key == toLowerCase(trim(part[1]))
           value == toLowerCase(trim(part[2]))
       IN \/ key = "day" /\ value \in {SHORT_DAY_NAMES[WeekdayOf(d) + 1],
                                       LONG_DAY_NAMES[WeekdayOf(d) + 1],
                                       ToString(WeekdayOf(d))}
          \/ key = "month" /\ value \in {SHORT_MONTH_NAMES[d[2]], LONG_MONTH_NAMES[d[2]],
                                         ToString(d[2]), padStart2(d[2])}
          \/ key = "dom" /\ value \in {ToString(d[3]), padStart2(d[3])}
          \/ key = "year" /\ value = ToString(d[1])
          \/ key = "date" /\ value = IsoText(d)

ConditionMatches(condition, d) ==
    \A k \in 1..Len(condition) : ClauseMatches(condition[k], d)

\* the text a sequence of tokens without blocks renders to
Plain(tokens, d) ==
    [k \in 1..Len(tokens) |->
        IF tokens[k].kind = "date" THEN DateText(tokens[k], d) ELSE tokens[k]]

Blocks(tokens) == {k \in 1..Len(tokens) : tokens[k].kind = "if"}

Rendered == render.pc = "done" /\ render.fn = "render"

\* C22: a template a{{if:C}}BODY{{/if}}post with one block renders to a, BODY
\* and post when every clause of C has a recognised key and a value matching
\* the reference date, and to a and post when not.
C22_SingleBlock ==
    (Rendered /\ render.input \in SingleBlockTemplates) =>
        LET open == CHOOSE k \in Blocks(render.input) : TRUE
            close == CHOOSE k \in 1..Len(render.input) : render.input[k].kind = "endif"
            before == SubSeq(render.input, 1, open - 1)
            body == SubSeq(render.input, open + 1, close - 1)
            after == SubSeq(render.input, close + 1, Len(render.input))
            d == render.referenceIso
        IN render.result =
              Plain(before, d)
              \o (IF ConditionMatches(render.input[open].cond, d)
                  THEN Plain(body, d) ELSE <<>>)
              \o Plain(after, d)

Max(S) == CHOOSE x \in S : \A y \in S : x >= y

\* blocks open at token k: the opens minus the closes among the first k tokens
Depth(tokens, k) ==
    Cardinality({j \in 1..k : tokens[j].kind = "if"})
    - Cardinality({j \in 1..k : tokens[j].kind = "endif"})

ProperlyNested(tokens) ==
    /\ \A k \in 1..Len(tokens) : Depth(tokens, k) >= 0 /\ Depth(tokens, k) <= 16
    /\ Depth(tokens, Len(tokens)) = 0

\* the block tree evaluated from the inside out: the first {{/if}} closes the
\* last {{if:...}} before it, and that block gives way to its body or to nothing
RECURSIVE InsideOut(_, _)
InsideOut(tokens, d) ==
    LET closes == {j \in 1..Len(tokens) : tokens[j].kind = "endif"}
    IN IF closes = {} THEN tokens
       ELSE LET close == Min(closes)
                opens == {k \in 1..(close - 1) : tokens[k].kind = "if"}
            IN IF opens = {} THEN tokens
               ELSE LET open == Max(opens)
                    IN InsideOut(SubSeq(tokens, 1, open - 1)
                                 \o (IF ConditionMatches(tokens[open].cond, d)
                                     THEN SubSeq(tokens, open + 1, close - 1) ELSE <<>>)
                                 \o SubSeq(tokens, close + 1, Len(tokens)), d)

\* C23: a template whose blocks are properly nested, at most 16 deep, renders
\* to the inside-out evaluation of its block tree, and no {{if:...}} or {{/if}}
\* is left in the output.
C23_NestedInsideOut ==
    ( /\ Rendered
      /\ render.input \in ShortTemplates \cup DeepTemplates
      /\ ProperlyNested(render.input) )
        => /\ render.result = Plain(InsideOut(render.input, render.referenceIso),
                                    render.referenceIso)
           /\ \A k \in 1..Len(render.result) :
                 render.result[k].kind \notin {"if", "endif"}

\* the template after n replacement passes
RECURSIVE AfterPasses(_, _, _)
AfterPasses(tokens, n, d) ==
    IF n = 0 THEN tokens
    ELSE ReplaceBlocks(AfterPasses(tokens, n - 1, d), 1, parseIsoDateParts(d))

\* a complete block: an {{if:...}} with an {{/if}} somewhere after it
HasBlock(tokens) ==
    \E i, j \in 1..Len(tokens) :
        i < j /\ tokens[i].kind = "if" /\ tokens[j].kind = "endif"

\* C26: renderConditionalBlocks runs at most 16 passes; every pass but the
\* last changed the text and the result is the text after the last pass; a
\* run of fewer than 16 passes ended on a pass that changed nothing and left
\* no complete block; and every pass of the loop ends it or moves the loop
\* index up by one, never past 16.
C26_PassesBounded ==
    /\ [](/\ render.passes <= 16
          /\ (render.pc = "done" /\ render.fn = "blocks") =>
                LET n == render.passes
                    d == render.referenceIso
                IN /\ n >= 1
                   /\ \A k \in 1..(n - 1) :
                         AfterPasses(render.input, k, d) # AfterPasses(render.input, k - 1, d)
                   /\ render.result = AfterPasses(render.input, n, d)
                   /\ n < 16 =>
                         /\ AfterPasses(render.input, n, d) = AfterPasses(render.input, n - 1, d)
                         /\ ~HasBlock(render.result))
    /\ [][render.pc = "loop" =>
             \/ render'.pc = "done"
             \/ render'.pc = "loop" /\ render'.i = render.i + 1 /\ render'.i <= 16]_vars

\* sixteen passes took apart sixteen blocks, one inside the other
C26_Witness ==
    /\ render.pc = "done" /\ render.fn = "blocks"
    /\ render.input = Nested(16)
    /\ render.passes = 16
    /\ render.result = <<Text("a")>>

\* ---- reference for the preset claims
StoredCount(kind) ==
    Len(CASE kind = "task" -> users.templatePresets.presets.tasks
          [] kind = "note" -> users.templatePresets.presets.notes
          [] kind = "dispatch" -> users.templatePresets.presets.dispatches)

\* a property that is a string with something in it besides blanks
Filled(value) == value.type = "string" /\ value.text \notin {"", " "}

MalformedTask(entry) ==
    \/ entry.type # "object"
    \/ ~Filled(entry.id) \/ ~Filled(entry.name) \/ ~Filled(entry.title)
    \/ /\ entry.recurrenceType = JString("custom")
       /\ ~ValidRule(entry.recurrenceRule)
       /\ ~(entry.recurrenceRule.kind = "string"
            /\ ValidRule([entry.recurrenceRule EXCEPT !.kind = "object"]))

MalformedText(entry) ==
    \/ entry.type # "object"
    \/ ~Filled(entry.id) \/ ~Filled(entry.name)
    \/ entry.content.type # "string"

\* more than 50 presets of a kind, or a malformed entry
Unacceptable(payload) ==
    /\ payload.type = "object"
    /\ \/ Len(payload.tasks.items) > 50
       \/ Len(payload.notes.items) > 50
       \/ Len(payload.dispatches.items) > 50
       \/ \E k \in 1..Len(payload.tasks.items) : MalformedTask(payload.tasks.items[k])
       \/ \E k \in 1..Len(payload.notes.items) : MalformedText(payload.notes.items[k])
       \/ \E k \in 1..Len(payload.dispatches.items) :
             MalformedText(payload.dispatches.items[k])

SuppliedBehavior(entry) ==
    IF /\ entry.recurrenceBehavior.type = "string"
       /\ entry.recurrenceBehavior.text \in {"after_completion", "duplicate_on_schedule"}
    THEN entry.recurrenceBehavior.text
    ELSE "after_completion"

\* C25: every task template validateTemplatePresetsInput returns carries the
\* entry's recurrenceBehavior, or after_completion when the entry has none,
\* and every task template parseStoredTemplatePresets returns carries a
\* recurrenceBehavior.
C25_BehaviorCarried ==
    /\ \A payload \in Payloads :
          LET validated == validateTemplatePresetsInput(payload)
          IN ~validated.threw =>
                \A k \in 1..Len(validated.presets.tasks) :
                    /\ "recurrenceBehavior" \in DOMAIN validated.presets.tasks[k]
                    /\ validated.presets.tasks[k].recurrenceBehavior
                          = SuppliedBehavior(payload.tasks.items[k])
    /\ \A k \in 1..Len(parseStoredTemplatePresets(users.templatePresets).tasks) :
          LET preset == parseStoredTemplatePresets(users.templatePresets).tasks[k]
          IN /\ "recurrenceBehavior" \in DOMAIN preset
             /\ preset.recurrenceBehavior
                   \in {"after_completion", "duplicate_on_schedule"}

====
